---------------------------- MODULE Spec2Model ----------------------------
(* Daily aggregation notebooks of wikimedia-research/2020-media-search:    *)
(*   - T259308_VE_media_funnel_processing.ipynb  (VE media funnel)          *)
(*   - the MediaSearch success aggregation notebook                         *)
(*   - T258229_mediasearch_filter_usage.ipynb    (filter usage)             *)
(* The SQL of each notebook is modelled relationally: a table is a set of   *)
(* event records, a CTE is a set-valued operator, INSERT INTO appends a bag *)
(* of rows to the output table.  Timestamps are whole hours since the       *)
(* calendar origin; dates are day ordinals (DateOf gives the date).         *)
EXTENDS Integers, Sequences, FiniteSets, Bags, TLC

VARIABLES
    now,            \* wall clock, in hours (dt.datetime.now(dt.timezone.utc))
    job,            \* which cron script this behaviour follows
    pc,             \* position in that script
    es,             \* event.editattemptstep
    vefu,           \* event.visualeditorfeatureuse
    ms,             \* event.mediawiki_mediasearch_interaction
    today,          \* VE notebook: today (yesterday/limit_timestamp derive from it)
    path_i,         \* VE notebook: index of the next key of dialog_actions
    next_day,       \* MediaSearch notebooks: next_day of the running notebook
    ve_table,       \* nettrom_sd.ve_media_funnel_aggregates
    success_table,  \* nettrom_sd.mediasearch_success_aggregates
    fps_table,      \* nettrom_sd.mediasearch_filters_per_session_aggregates
    fc_table,       \* nettrom_sd.mediasearch_filter_change_aggregates
    appended,       \* the rows the latest INSERT INTO appended (a bag)
    p_start, p_end, \* arguments given to make_partition_statement
    p_stmt,         \* the statement it returned
    raised,         \* what the latest spark.run of the notebook raised
    runs            \* how many times the cron script was started

vars == <<now, job, pc, es, vefu, ms, today, path_i, next_day, ve_table,
          success_table, fps_table, fc_table, appended, p_start, p_end, p_stmt,
          raised, runs>>

-----------------------------------------------------------------------------
(* Calendar: datetime.date as a day ordinal; .year/.month/.day by DateOf.  *)

\* Number of days of the modelled calendar window, which starts at Origin.
CalDays == 121

Origin == [year |-> 2020, month |-> 12, day |-> 1]

IsLeap(y) == (y % 4 = 0 /\ y % 100 # 0) \/ y % 400 = 0

DaysInMonth(y, m) ==
    IF m = 2 THEN (IF IsLeap(y) THEN 29 ELSE 28)
    ELSE IF m \in {4, 6, 9, 11} THEN 30 ELSE 31

\* The i-th calendar month after Origin's (Origin is the first of a month).
MonthOf(i) ==
    [year  |-> Origin.year + ((Origin.month - 1 + i) \div 12),
     month |-> ((Origin.month - 1 + i) % 12) + 1]

\* The day ordinal of the first day of that month.
RECURSIVE MonthStart(_)
MonthStart(i) ==
    IF i = 0 THEN 0
    ELSE MonthStart(i - 1) + DaysInMonth(MonthOf(i - 1).year, MonthOf(i - 1).month)

\* datetime.date of a day ordinal (date = Origin + timedelta(days = n)).
DateFromOrdinal(n) ==
    LET i == CHOOSE k \in 0 .. (n \div 28) :
                MonthStart(k) <= n /\ n < MonthStart(k + 1)
    IN  [year |-> MonthOf(i).year, month |-> MonthOf(i).month,
         day |-> n - MonthStart(i) + 1]

Days == 0 .. (CalDays - 1)

\* The dates of the window, tabulated.
Calendar == [n \in Days |-> DateFromOrdinal(n)]

DateOf(n) == Calendar[n]

\* The day ordinal of a date.
Ordinal(y, m, d) == MonthStart((y - Origin.year) * 12 + m - Origin.month) + d - 1

-----------------------------------------------------------------------------
(* make_partition_statement: the returned SQL text is modelled by its      *)
(* structure; the prefix argument only qualifies the column names.         *)

NoStatement == [form |-> "none"]

\* Variant: case 1 (the BETWEEN statement) whatever the months are.
make_partition_statement_between(start_ts, end_ts) ==
    [form |-> "between", year |-> start_ts.year, month |-> start_ts.month,
     lo |-> start_ts.day, hi |-> end_ts.day]

\* Variant: case 1 is chosen on the year alone.
make_partition_statement_same_year(start_ts, end_ts) ==
    IF start_ts.year = end_ts.year
      THEN [form |-> "between", year |-> start_ts.year, month |-> start_ts.month,
            lo |-> start_ts.day, hi |-> end_ts.day]
      ELSE [form |-> "or",
            year1 |-> start_ts.year, month1 |-> start_ts.month, from |-> start_ts.day,
            year2 |-> end_ts.year, month2 |-> end_ts.month, upto |-> end_ts.day]

make_partition_statement(start_ts, end_ts) ==
    IF start_ts.year = end_ts.year /\ start_ts.month = end_ts.month
      THEN [form |-> "between", year |-> start_ts.year, month |-> start_ts.month,
            lo |-> start_ts.day, hi |-> end_ts.day]
      ELSE [form |-> "or",
            year1 |-> start_ts.year, month1 |-> start_ts.month, from |-> start_ts.day,
            year2 |-> end_ts.year, month2 |-> end_ts.month, upto |-> end_ts.day]

\* SQL evaluation of a partition statement on a row's (year, month, day).
Selects(stmt, p) ==
    IF stmt.form = "between"
      THEN p.year = stmt.year /\ p.month = stmt.month
           /\ stmt.lo <= p.day /\ p.day <= stmt.hi
      ELSE IF stmt.form = "or"
        THEN \/ (p.year = stmt.year1 /\ p.month = stmt.month1 /\ p.day >= stmt.from)
             \/ (p.year = stmt.year2 /\ p.month = stmt.month2 /\ p.day <= stmt.upto)
        ELSE FALSE

-----------------------------------------------------------------------------
(* Time.  A timestamp (dt) is a whole number of hours since Origin 00:00   *)
(* UTC; a date is a day ordinal.                                           *)

HoursPerDay == 24

\* dt.time(hour = 1): the hour after midnight that ends the data window.
LimitHour == 1

TO_DATE(dt) == dt \div HoursPerDay

\* dt.datetime.combine(date, dt.time(hour = h))
Combine(date, h) == date * HoursPerDay + h

\* dt.datetime.now(dt.timezone.utc).date()
UtcDate(clock) == TO_DATE(clock)

MinOf(S) == CHOOSE x \in S : \A y \in S : x <= y

-----------------------------------------------------------------------------
(* VE media funnel notebook                                                *)

\* dialog_actions.keys(), in insertion order
dialog_action_keys == <<"add media", "edit media", "other">>

\* dialog_actions[path_type]['open']
open_action(path_type) ==
    CASE path_type = "add media"  -> "window-open-from-tool"
      [] path_type = "edit media" -> "window-open-from-context"
      [] path_type = "other"      -> "window-open-from-command"

\* dialog_actions[path_type]['close'], a regular expression, given by the
\* actions of the schema that event.action REGEXP "<it>" accepts.
close_regexp(path_type) ==
    CASE path_type = "add media"  -> {"dialog-insert"}
      [] path_type = "edit media" -> {"dialog-done"}
      [] path_type = "other"      -> {"dialog-insert", "dialog-done"}

yesterday(t) == t - 1

limit_timestamp(t) == Combine(t, LimitHour)

\* A query instance q: the tables it reads and the values .format() fills in:
\*   q.es, q.vefu  the two event tables
\*   q.today       today; start_date = yesterday, end_date = today
\*   q.path_type   the key of dialog_actions
\*   q.first       what FIRST_VALUE(event.page_ns) returns for each session
es_partition_statement(q) ==
    make_partition_statement(DateOf(yesterday(q.today)), DateOf(q.today))

vefu_partition_statement(q) ==
    make_partition_statement(DateOf(yesterday(q.today)), DateOf(q.today))

\* Variant: step_1 without "event.is_oversample = false".
step_1_rows_oversampled(q) ==
    {e \in q.es :
        /\ Selects(make_partition_statement(DateOf(q.today - 1), DateOf(q.today)),
                   DateOf(e.part))
        /\ e.dt >= Combine(q.today - 1, 0)
        /\ e.dt < Combine(q.today, 0)
        /\ e.editor_interface = "visualeditor"
        /\ e.action = "init"}

\* The rows of event.editattemptstep that step_1's WHERE clause keeps.
step_1_rows(q) ==
    {e \in q.es :
        /\ Selects(es_partition_statement(q), DateOf(e.part))
        /\ e.dt >= Combine(yesterday(q.today), 0)
        /\ e.dt < Combine(q.today, 0)
        /\ e.is_oversample = FALSE
        /\ e.editor_interface = "visualeditor"
        /\ e.action = "init"}

\* The values FIRST_VALUE(event.page_ns) may return: any row of the group.
FirstValues(ES, t) ==
    LET rows == step_1_rows([es |-> ES, today |-> t])
        ids  == {e.editing_session_id : e \in rows}
    IN  {f \in [ids -> {e.page_ns : e \in rows}] :
            \A s \in ids : \E e \in rows :
                e.editing_session_id = s /\ e.page_ns = f[s]}

step_1(q) ==
    LET rows == step_1_rows(q)
    IN  {[editing_session_id |-> s,
          namespace |-> q.first[s],
          dt |-> MinOf({e.dt : e \in {r \in rows : r.editing_session_id = s}})] :
         s \in {e.editing_session_id : e \in rows}}

\* Variant: the join without "vefu.dt >= previous step's dt".
vefu_join_unordered(q, prev, actions) ==
    {e.dt : e \in {v \in q.vefu :
        /\ v.editingsessionid = prev.editing_session_id
        /\ Selects(make_partition_statement(DateOf(q.today - 1), DateOf(q.today)),
                   DateOf(v.part))
        /\ v.feature = "media"
        /\ v.action \in actions
        /\ v.dt < Combine(q.today, LimitHour)}}

\* Variant: the join with "vefu.dt > previous step's dt".
vefu_join_strict(q, prev, actions) ==
    {e.dt : e \in {v \in q.vefu :
        /\ v.editingsessionid = prev.editing_session_id
        /\ Selects(make_partition_statement(DateOf(q.today - 1), DateOf(q.today)),
                   DateOf(v.part))
        /\ v.feature = "media"
        /\ v.action \in actions
        /\ v.dt > prev.dt
        /\ v.dt < Combine(q.today, LimitHour)}}

\* Variant: the join without "vefu.dt < time_limit_ts".
vefu_join_unlimited(q, prev, actions) ==
    {e.dt : e \in {v \in q.vefu :
        /\ v.editingsessionid = prev.editing_session_id
        /\ Selects(make_partition_statement(DateOf(q.today - 1), DateOf(q.today)),
                   DateOf(v.part))
        /\ v.feature = "media"
        /\ v.action \in actions
        /\ v.dt >= prev.dt}}

\* The dt values of visualeditorfeatureuse that one row of the previous step
\* joins with under the WHERE clause shared by step_2 .. step_5.
vefu_join(q, prev, actions) ==
    {e.dt : e \in {v \in q.vefu :
        /\ v.editingsessionid = prev.editing_session_id
        /\ Selects(vefu_partition_statement(q), DateOf(v.part))
        /\ v.feature = "media"
        /\ v.action \in actions
        /\ v.dt >= prev.dt
        /\ v.dt < limit_timestamp(q.today)}}

\* Variant: MAX(vefu.dt) in place of MIN(vefu.dt).
vefu_step_latest(q, prev_step, actions) ==
    {[editing_session_id |-> p.editing_session_id,
      dt |-> CHOOSE x \in vefu_join(q, p, actions) :
                \A y \in vefu_join(q, p, actions) : x >= y] :
     p \in {r \in prev_step : vefu_join(q, r, actions) # {}}}

\* Variant: the step without MIN and GROUP BY, one row per joined event.
vefu_step_ungrouped(q, prev_step, actions) ==
    UNION {{[editing_session_id |-> p.editing_session_id, dt |-> d] :
              d \in vefu_join(q, p, actions)} :
           p \in prev_step}

\* SELECT editing_session_id, MIN(vefu.dt) ... GROUP BY editing_session_id
vefu_step(q, prev_step, actions) ==
    {[editing_session_id |-> p.editing_session_id,
      dt |-> MinOf(vefu_join(q, p, actions))] :
     p \in {r \in prev_step : vefu_join(q, r, actions) # {}}}

step_2(q) == vefu_step(q, step_1(q), {open_action(q.path_type)})

\* Variant: step_3 joined to step_1 in place of step_2.
step_3_unchained(q) == vefu_step(q, step_1(q), {"search-change-query"})

step_3(q) == vefu_step(q, step_2(q), {"search-change-query"})

step_4(q) == vefu_step(q, step_3(q), {"search-confirm-image"})

step_5(q) == vefu_step(q, step_4(q), close_regexp(q.path_type))

step_6(q) ==
    {[editing_session_id |-> p.editing_session_id] :
     p \in {r \in step_5(q) : \E e \in q.es :
        /\ e.editing_session_id = r.editing_session_id
        /\ Selects(es_partition_statement(q), DateOf(e.part))
        /\ e.action = "saveSuccess"
        /\ e.dt >= r.dt
        /\ e.dt < limit_timestamp(q.today)}}

\* SQL NULL and a present value: a nullable value is a set of at most one
\* element.
NULL == {}

Some(x) == {x}

\* LEFT JOIN step ON step_1.editing_session_id = step.editing_session_id:
\* the rows of step joined to one row of step_1, or a single all-NULL row.
left_join_step(r1, step) ==
    IF \E r \in step : r.editing_session_id = r1.editing_session_id
      THEN {Some(r) : r \in {x \in step : x.editing_session_id = r1.editing_session_id}}
      ELSE {NULL}

\* FROM step_1 LEFT JOIN step_2 ... LEFT JOIN step_6
funnel_joined(q) ==
    LET s2 == step_2(q)
        s3 == step_3(q)
        s4 == step_4(q)
        s5 == step_5(q)
        s6 == step_6(q)
    IN  UNION {
          {[step_1 |-> r1, step_2 |-> j[1], step_3 |-> j[2], step_4 |-> j[3],
            step_5 |-> j[4], step_6 |-> j[5]] :
             j \in left_join_step(r1, s2) \X left_join_step(r1, s3)
                   \X left_join_step(r1, s4) \X left_join_step(r1, s5)
                   \X left_join_step(r1, s6)} :
          r1 \in step_1(q)}

\* count(1)
CountRows(rows) == Cardinality(rows)

\* count(step.editing_session_id), SUM(IF(step.editing_session_id IS NOT NULL, 1, 0)):
\* the joined rows whose step row is not the all-NULL row.
CountStep(rows, step) == Cardinality({j \in rows : j[step] # NULL})

\* GROUP BY TO_DATE(step_1.dt), step_1.namespace
funnel_key(j) == <<TO_DATE(j.step_1.dt), j.step_1.namespace>>

\* The SELECT list over one group of joined rows.
funnel_row(path_type, k, group) ==
    [log_date |-> k[1],
     namespace |-> k[2],
     path_type |-> path_type,
     num_edit_sessions  |-> CountRows(group),
     num_dialog_opens   |-> CountStep(group, "step_2"),
     num_media_searches |-> CountStep(group, "step_3"),
     num_media_confirms |-> CountStep(group, "step_4"),
     num_dialog_close   |-> CountStep(group, "step_5"),
     num_edit_saves     |-> CountStep(group, "step_6")]

funnel_select(path_type, joined) ==
    {funnel_row(path_type, k, {j \in joined : funnel_key(j) = k}) :
     k \in {funnel_key(j) : j \in joined}}

\* The final SELECT: one row per (TO_DATE(step_1.dt), step_1.namespace).
edit_funnel_query(q) == funnel_select(q.path_type, funnel_joined(q))

-----------------------------------------------------------------------------
(* MediaSearch notebooks (success aggregation, filter usage).  A query      *)
(* instance q has q.ms (event.mediawiki_mediasearch_interaction) and        *)
(* q.next_day; an event's dt field stands for coalesce(dt, meta.dt).        *)

data_day(nd) == nd - 1

previous_day(nd) == data_day(nd) - 1

\* Variant: the limit at midnight, without the hour given to late events.
ms_limit_timestamp_midnight(nd) == Combine(nd, 0)

ms_limit_timestamp(nd) == Combine(nd, LimitHour)

\* Variant: make_partition_statement(data_day, next_day), as the VE notebook.
ms_partition_statement_data_day(q) ==
    make_partition_statement(DateOf(q.next_day - 1), DateOf(q.next_day))

ms_partition_statement(q) ==
    make_partition_statement(DateOf(previous_day(q.next_day)), DateOf(q.next_day))

\* FROM event.mediawiki_mediasearch_interaction AS ms WHERE {ms_partition_statement}
ms_scanned(q) == {e \in q.ms : Selects(ms_partition_statement(q), DateOf(e.part))}

mediasearch_sessions(q) ==
    LET rows == {e \in ms_scanned(q) : e.action = "search_new"}
        grouped == {[session_id |-> s,
                     session_start_dt |->
                        MinOf({e.dt : e \in {r \in rows : r.web_pageview_id = s}})] :
                    s \in {e.web_pageview_id : e \in rows}}
    IN  {g \in grouped : TO_DATE(g.session_start_dt) = data_day(q.next_day)}

mediasearch_filters(q) ==
    {[session_id |-> mess.session_id, used_filter |-> Some(1)] :
     mess \in {m \in mediasearch_sessions(q) : \E e \in ms_scanned(q) :
        /\ e.web_pageview_id = m.session_id
        /\ e.action = "filter_change"
        /\ e.dt < ms_limit_timestamp(q.next_day)}}

\* Variant: the join without "coalesce(dt, meta.dt) < limit_timestamp".
result_clicks_unlimited(q, mess) ==
    {e \in {x \in q.ms : Selects(make_partition_statement(
                              DateOf(q.next_day - 2), DateOf(q.next_day)),
                            DateOf(x.part))} :
        /\ e.web_pageview_id = mess.session_id
        /\ e.action = "result_click"
        /\ e.dt > mess.session_start_dt}

\* The result_click events joined to one session row (quickview and median).
result_clicks(q, mess) ==
    {e \in ms_scanned(q) :
        /\ e.web_pageview_id = mess.session_id
        /\ e.action = "result_click"
        /\ e.dt > mess.session_start_dt
        /\ e.dt < ms_limit_timestamp(q.next_day)}

mediasearch_quickview(q) ==
    {[session_id |-> mess.session_id,
      first_click_dt |-> MinOf({e.dt : e \in result_clicks(q, mess)}),
      clicked_result |-> Some(1)] :
     mess \in {m \in mediasearch_sessions(q) : result_clicks(q, m) # {}}}

\* The events joined to one quickview row in mediasearch_result_actions.
result_action_events(q, mq) ==
    {e \in ms_scanned(q) :
        /\ e.web_pageview_id = mq.session_id
        /\ e.dt > mq.first_click_dt
        /\ e.dt < ms_limit_timestamp(q.next_day)}

\* Variant: MAX(1), which marks every action once any event is joined.
MaxIf_any(events, a) == IF events # {} THEN Some(1) ELSE NULL

\* MAX(IF(action = a, 1, NULL)): 1 when some joined event has the action,
\* NULL when all inputs are NULL.
MaxIf(events, a) == IF \E e \in events : e.action = a THEN Some(1) ELSE NULL

mediasearch_result_actions(q) ==
    {[session_id |-> mq.session_id,
      file_page_click |-> MaxIf(result_action_events(q, mq), "quickview_more_details_click"),
      filename_copy   |-> MaxIf(result_action_events(q, mq), "quickview_filename_copy"),
      wikitext_copy   |-> MaxIf(result_action_events(q, mq), "quickview_wikitext_link_copy"),
      played_media    |-> MaxIf(result_action_events(q, mq), "quickview_media_play")] :
     mq \in {m \in mediasearch_quickview(q) : result_action_events(q, m) # {}}}

\* The k-th smallest (k = 1 ..) search_result_position over a set of events.
KthPosition(events, k) ==
    CHOOSE v \in {e.search_result_position : e \in events} :
        /\ Cardinality({e \in events : e.search_result_position < v}) < k
        /\ Cardinality({e \in events : e.search_result_position <= v}) >= k

\* Variant: the lower of the two middle values in place of their mean.
Percentile50x2_lower(events) ==
    2 * KthPosition(events, (Cardinality(events) + 1) \div 2)

\* percentile(search_result_position, 0.5), doubled so that it stays an
\* integer: the middle value, or the mean of the two middle values.
Percentile50x2(events) ==
    LET n == Cardinality(events)
    IN  IF n % 2 = 1
          THEN 2 * KthPosition(events, (n + 1) \div 2)
          ELSE KthPosition(events, n \div 2) + KthPosition(events, n \div 2 + 1)

\* The result_click rows joined to the sessions of one log_date.
median_joined(q, sessions, d) ==
    UNION {result_clicks(q, m) :
           m \in {x \in sessions : TO_DATE(x.session_start_dt) = d}}

median_select(q, sessions) ==
    {[log_date |-> d,
      median_click_position_x2 |-> Percentile50x2(median_joined(q, sessions, d))] :
     d \in {x \in {TO_DATE(m.session_start_dt) : m \in sessions} :
              median_joined(q, sessions, x) # {}}}

median_click_position(q) == median_select(q, mediasearch_sessions(q))

\* LEFT JOIN t ON mess.session_id = t.session_id
left_join_session(mess, t) ==
    IF \E r \in t : r.session_id = mess.session_id
      THEN {Some(r) : r \in {x \in t : x.session_id = mess.session_id}}
      ELSE {NULL}

\* FROM mediasearch_sessions AS mess LEFT JOIN mediasearch_filters AS mf
\* LEFT JOIN mediasearch_quickview AS mq LEFT JOIN mediasearch_result_actions AS ma
stats_joined(q) ==
    LET mf == mediasearch_filters(q)
        mq == mediasearch_quickview(q)
        ma == mediasearch_result_actions(q)
    IN  UNION {
          {[mess |-> m, mf |-> j[1], mq |-> j[2], ma |-> j[3]] :
             j \in left_join_session(m, mf) \X left_join_session(m, mq)
                   \X left_join_session(m, ma)} :
          m \in mediasearch_sessions(q)}

\* Variant: COUNT(1) in place of COUNT(alias.column).
CountColumn_all(rows, alias, column) == Cardinality(rows)

\* COUNT(alias.column): the joined rows whose column is not NULL (a column of
\* the all-NULL row of a LEFT JOIN is NULL).
CountColumn(rows, alias, column) ==
    Cardinality({j \in rows : \E r \in j[alias] : r[column] # NULL})

\* The SELECT list of mediasearch_stats over one group of joined rows.
stats_row(d, group) ==
    [log_date |-> d,
     num_mediasearch_sessions |-> CountRows(group),
     num_used_filter      |-> CountColumn(group, "mf", "used_filter"),
     num_result_clicked   |-> CountColumn(group, "mq", "clicked_result"),
     num_filepage_clicked |-> CountColumn(group, "ma", "file_page_click"),
     num_filename_copied  |-> CountColumn(group, "ma", "filename_copy"),
     num_wikitext_copied  |-> CountColumn(group, "ma", "wikitext_copy"),
     num_media_played     |-> CountColumn(group, "ma", "played_media")]

stats_select(joined) ==
    {stats_row(d, {j \in joined : TO_DATE(j.mess.session_start_dt) = d}) :
     d \in {TO_DATE(j.mess.session_start_dt) : j \in joined}}

mediasearch_stats(q) == stats_select(stats_joined(q))

\* LEFT JOIN median_click_position AS mcp ON mass.log_date = mcp.log_date,
\* coalesce(mcp.median_click_position, 0.0); the median is kept doubled.
success_row(mass, mcp) ==
    [log_date |-> mass.log_date,
     num_mediasearch_sessions |-> mass.num_mediasearch_sessions,
     num_used_filter      |-> mass.num_used_filter,
     num_result_clicked   |-> mass.num_result_clicked,
     num_filepage_clicked |-> mass.num_filepage_clicked,
     num_filename_copied  |-> mass.num_filename_copied,
     num_wikitext_copied  |-> mass.num_wikitext_copied,
     num_media_played     |-> mass.num_media_played,
     median_position_clicked_x2 |->
         IF mcp = {} THEN 0
         ELSE (CHOOSE r \in mcp : TRUE).median_click_position_x2]

\* Variant: JOIN in place of LEFT JOIN median_click_position.
success_select_inner(stats, medians) ==
    {success_row(mass, {m \in medians : m.log_date = mass.log_date}) :
     mass \in {x \in stats : \E m \in medians : m.log_date = x.log_date}}

success_select(stats, medians) ==
    {success_row(mass, {m \in medians : m.log_date = mass.log_date}) :
     mass \in stats}

\* The final SELECT of mediasearch_success_query.
mediasearch_success_query(q) ==
    success_select(mediasearch_stats(q), median_click_position(q))

\* Variant: the sessions CTE without "HAVING TO_DATE(session_start_dt) = today".
fps_mediasearch_sessions_any_day(q) ==
    LET rows == {e \in {x \in q.ms : Selects(make_partition_statement(
                              DateOf(q.next_day - 2), DateOf(q.next_day)),
                            DateOf(x.part))} : e.action = "search_new"}
    IN  {[session_id |-> s,
          session_start_dt |->
             MinOf({e.dt : e \in {r \in rows : r.web_pageview_id = s}})] :
         s \in {e.web_pageview_id : e \in rows}}

\* The mediasearch_sessions CTE of filters_per_session_query.
fps_mediasearch_sessions(q) ==
    LET rows == {e \in ms_scanned(q) : e.action = "search_new"}
        grouped == {[session_id |-> s,
                     session_start_dt |->
                        MinOf({e.dt : e \in {r \in rows : r.web_pageview_id = s}})] :
                    s \in {e.web_pageview_id : e \in rows}}
    IN  {g \in grouped : TO_DATE(g.session_start_dt) = data_day(q.next_day)}

\* The mediasearch_sessions CTE of filter_change_aggregate_query.
fca_mediasearch_sessions(q) ==
    LET rows == {e \in ms_scanned(q) : e.action = "search_new"}
        grouped == {[session_id |-> s,
                     session_start_dt |->
                        MinOf({e.dt : e \in {r \in rows : r.web_pageview_id = s}})] :
                    s \in {e.web_pageview_id : e \in rows}}
    IN  {g \in grouped : TO_DATE(g.session_start_dt) = data_day(q.next_day)}

\* The filter_change events joined to one session row (both filter queries).
filter_changes(q, mess) ==
    {e \in ms_scanned(q) :
        /\ e.web_pageview_id = mess.session_id
        /\ e.action = "filter_change"
        /\ e.dt < ms_limit_timestamp(q.next_day)}

\* Variant: LEFT JOIN, which keeps the sessions without filter_change event.
filters_per_session_left(q) ==
    {[log_date |-> TO_DATE(mess.session_start_dt),
      session_id |-> mess.session_id,
      num_filter_changes |-> Cardinality({e \in q.ms :
          /\ Selects(make_partition_statement(DateOf(q.next_day - 2), DateOf(q.next_day)),
                     DateOf(e.part))
          /\ e.web_pageview_id = mess.session_id
          /\ e.action = "filter_change"
          /\ e.dt < Combine(q.next_day, LimitHour)})] :
     mess \in fps_mediasearch_sessions(q)}

filters_per_session(q) ==
    {[log_date |-> TO_DATE(mess.session_start_dt),
      session_id |-> mess.session_id,
      num_filter_changes |-> Cardinality(filter_changes(q, mess))] :
     mess \in {m \in fps_mediasearch_sessions(q) : filter_changes(q, m) # {}}}

\* The final SELECT of filters_per_session_query.  FIRST_VALUE(log_date) is
\* the date of some row of the group.
filters_per_session_query(q) ==
    LET fps == filters_per_session(q)
        group(n) == {r \in fps : r.num_filter_changes = n}
    IN  {[log_date |-> (CHOOSE r \in group(n) : TRUE).log_date,
          filter_changes |-> n,
          num_sessions |-> Cardinality(group(n))] :
         n \in {r.num_filter_changes : r \in fps}}

mediasearch_filter_aggregates(q) ==
    LET joined == {<<m, e>> \in fca_mediasearch_sessions(q) \X ms_scanned(q) :
                      e \in filter_changes(q, m)}
        key(j) == <<TO_DATE(j[1].session_start_dt),
                    j[2].search_filter_type, j[2].search_filter_value>>
    IN  {[log_date |-> k[1],
          search_filter_type |-> k[2],
          search_filter_value |-> k[3],
          num_changes |-> Cardinality({j \in joined : key(j) = k})] :
         k \in {key(j) : j \in joined}}

\* Variant: the final SELECT without IF(search_filter_value = '', 'reset', ...).
filter_change_row_verbatim(r) ==
    [log_date |-> r.log_date,
     filter_type |-> r.search_filter_type,
     filter_value |-> r.search_filter_value,
     num_changes |-> r.num_changes]

\* The final SELECT of filter_change_aggregate_query: one output row per row
\* of mediasearch_filter_aggregates, hence a bag.
filter_change_row(r) ==
    [log_date |-> r.log_date,
     filter_type |-> r.search_filter_type,
     filter_value |-> IF r.search_filter_value = "" THEN "reset"
                      ELSE r.search_filter_value,
     num_changes |-> r.num_changes]

\* Variant: SELECT DISTINCT in the final SELECT, equal output rows merged.
filter_change_aggregate_query_distinct(q) ==
    SetToBag({filter_change_row(r) : r \in mediasearch_filter_aggregates(q)})

filter_change_aggregate_query(q) ==
    LET agg == mediasearch_filter_aggregates(q)
    IN  [row \in {filter_change_row(r) : r \in agg} |->
            Cardinality({r \in agg : filter_change_row(r) = row})]

-----------------------------------------------------------------------------
(* Event records and the bounded sets they are drawn from.                 *)

ESEvent(s, a, t, p, ns, over, iface) ==
    [editing_session_id |-> s, action |-> a, dt |-> t, part |-> p,
     page_ns |-> ns, is_oversample |-> over, editor_interface |-> iface]

VEFUEvent(s, f, a, t, p) ==
    [editingsessionid |-> s, feature |-> f, action |-> a, dt |-> t, part |-> p]

MSEvent(s, a, t, p, ftype, fvalue, pos) ==
    [web_pageview_id |-> s, action |-> a, dt |-> t, part |-> p,
     search_filter_type |-> ftype, search_filter_value |-> fvalue,
     search_result_position |-> pos]

\* The day a run at wall-clock time `clock` aggregates.
DataDayAt(clock) == UtcDate(clock) - 1

\* Timestamps `offsets` hours after 00:00 of the data day.
Stamps(clock, offsets) == {Combine(DataDayAt(clock), 0) + o : o \in offsets}

\* The partition an event lands in: that of its own hour, or of the next
\* hour when it is ingested late.
PartsOf(t) == {TO_DATE(t), TO_DATE(t + 1)}

ESUniverse(sessions, actions, stamps, spaces) ==
    UNION {{ESEvent(s, a, t, p, ns, FALSE, "visualeditor") : p \in PartsOf(t)} :
           s \in sessions, a \in actions, t \in stamps, ns \in spaces}

VEFUUniverse(sessions, actions, stamps) ==
    UNION {{VEFUEvent(s, "media", a, t, p) : p \in PartsOf(t)} :
           s \in sessions, a \in actions, t \in stamps}

-----------------------------------------------------------------------------
(* The scripts.  job names the cron script a behaviour follows; the event   *)
(* tables are filled while the script has not started (pc = "idle") and are *)
(* read by the notebook afterwards.                                         *)

LogSize == Cardinality(es) + Cardinality(vefu) + Cardinality(ms)

notebook_vars == <<today, path_i, next_day, raised, runs>>
table_vars == <<ve_table, success_table, fps_table, fc_table, appended>>
partition_vars == <<p_start, p_end, p_stmt>>

EmitES(e) ==
    /\ pc = "idle"
    /\ e \notin es
    /\ es' = es \cup {e}
    /\ UNCHANGED <<now, job, pc, vefu, ms, notebook_vars, table_vars, partition_vars>>

EmitVEFU(e) ==
    /\ pc = "idle"
    /\ e \notin vefu
    /\ vefu' = vefu \cup {e}
    /\ UNCHANGED <<now, job, pc, es, ms, notebook_vars, table_vars, partition_vars>>

EmitMS(e) ==
    /\ pc = "idle"
    /\ e \notin ms
    /\ ms' = ms \cup {e}
    /\ UNCHANGED <<now, job, pc, es, vefu, notebook_vars, table_vars, partition_vars>>

\* Variant: a write keyed on the row, which keeps one copy of each row.
InsertInto_upsert(table, rows) ==
    [r \in DOMAIN table \cup DOMAIN rows |-> 1]

\* INSERT INTO table SELECT ...: the rows are appended.
InsertInto(table, rows) == table (+) rows

\* INSERT INTO {aggregate_table}, table_name = nettrom_sd.ve_media_funnel_aggregates
InsertIntoVE(rows) ==
    /\ ve_table' = InsertInto(ve_table, rows)
    /\ appended' = rows

\* INSERT INTO {aggregate_table}, the search_success_table
InsertIntoSuccess(rows) ==
    /\ success_table' = InsertInto(success_table, rows)
    /\ appended' = rows

\* INSERT INTO {aggregate_table}, the filters_per_session_counts_table
InsertIntoFiltersPerSession(rows) ==
    /\ fps_table' = InsertInto(fps_table, rows)
    /\ appended' = rows

\* INSERT INTO {aggregate_table}, the filter_change_aggregates_table
InsertIntoFilterChange(rows) ==
    /\ fc_table' = InsertInto(fc_table, rows)
    /\ appended' = rows

\* VE notebook, cell "Define Dates and Timestamp Limit".
VEDefineDates ==
    /\ job = "process_VE_media_funnel"
    /\ pc = "idle"
    /\ today' = UtcDate(now)
    /\ path_i' = 1
    /\ pc' = "ve_loop"
    /\ raised' = "none"
    /\ runs' = runs + 1
    /\ UNCHANGED <<now, job, es, vefu, ms, next_day, table_vars, partition_vars>>

\* The query instance of one iteration of "for path_type in dialog_actions.keys()".
VEQuery(ES, VEFU, t, path, first) ==
    [es |-> ES, vefu |-> VEFU, today |-> t, path_type |-> path, first |-> first]

\* One iteration of the loop: spark.run(edit_funnel_query.format(...)).
VERunPath ==
    /\ pc = "ve_loop"
    /\ \E first \in FirstValues(es, today) :
         InsertIntoVE(SetToBag(edit_funnel_query(
             VEQuery(es, vefu, today, dialog_action_keys[path_i], first))))
    /\ path_i' = path_i + 1
    /\ pc' = IF path_i = Len(dialog_action_keys) THEN "done" ELSE "ve_loop"
    /\ raised' = "none"
    /\ UNCHANGED <<now, job, es, vefu, ms, today, next_day, runs,
                   success_table, fps_table, fc_table, partition_vars>>

\* The query instance of the MediaSearch notebooks.
MSQuery(MS, nd) == [ms |-> MS, next_day |-> nd]

\* MediaSearch success notebook, cell "Configuring Timestamps".
SuccessDefineDates ==
    /\ job = "aggregate_commons_searches"
    /\ pc = "idle"
    /\ next_day' = UtcDate(now)
    /\ pc' = "success_query"
    /\ raised' = "none"
    /\ runs' = runs + 1
    /\ UNCHANGED <<now, job, es, vefu, ms, today, path_i, table_vars, partition_vars>>

\* spark.run(mediasearch_success_query.format(...))
SuccessRun ==
    /\ pc = "success_query"
    /\ InsertIntoSuccess(SetToBag(mediasearch_success_query(MSQuery(ms, next_day))))
    /\ pc' = "filter_usage"
    /\ raised' = "none"
    /\ UNCHANGED <<now, job, es, vefu, ms, today, path_i, next_day, runs,
                   ve_table, fps_table, fc_table, partition_vars>>

\* Filter usage notebook, cell "Configuring Timestamps".
FilterDefineDates ==
    /\ pc \in {"filter_usage", "success_aborted"}
    /\ next_day' = UtcDate(now)
    /\ pc' = "filters_per_session_query"
    /\ raised' = "none"
    /\ UNCHANGED <<now, job, es, vefu, ms, today, path_i, runs, table_vars,
                   partition_vars>>

\* spark.run(filters_per_session_query.format(...))
FiltersPerSessionRun ==
    /\ pc = "filters_per_session_query"
    /\ InsertIntoFiltersPerSession(
           SetToBag(filters_per_session_query(MSQuery(ms, next_day))))
    /\ pc' = "filter_change_aggregate_query"
    /\ raised' = "none"
    /\ UNCHANGED <<now, job, es, vefu, ms, today, path_i, next_day, runs,
                   ve_table, success_table, fc_table, partition_vars>>

\* spark.run(filter_change_aggregate_query.format(...))
FilterChangeRun ==
    /\ pc = "filter_change_aggregate_query"
    /\ InsertIntoFilterChange(filter_change_aggregate_query(MSQuery(ms, next_day)))
    /\ pc' = "done"
    /\ raised' = "none"
    /\ UNCHANGED <<now, job, es, vefu, ms, today, path_i, next_day, runs,
                   ve_table, success_table, fps_table, partition_vars>>

\* What spark.run can raise: the UnboundLocalError of wmfdata on DDL/DML
\* statements, or any other exception.
SparkErrors == {"UnboundLocalError", "Exception"}

\* wmfdata raises its UnboundLocalError after the statement has run; an
\* INSERT that fails with another exception commits nothing.
StatementExecuted(err) == err = "UnboundLocalError"

\* Variant: "except Exception: pass".
Ignored_any(err) == TRUE

\* Variant: no except clause.
Ignored_none(err) == FALSE

\* except UnboundLocalError: pass
Ignored(err) == err = "UnboundLocalError"

\* One iteration of the VE loop in which spark.run raises err.
VERunPathRaises(err) ==
    /\ pc = "ve_loop"
    /\ IF StatementExecuted(err)
         THEN \E first \in FirstValues(es, today) :
                InsertIntoVE(SetToBag(edit_funnel_query(
                    VEQuery(es, vefu, today, dialog_action_keys[path_i], first))))
         ELSE ve_table' = ve_table /\ appended' = EmptyBag
    /\ raised' = err
    /\ IF Ignored(err)
         THEN /\ path_i' = path_i + 1
              /\ pc' = IF path_i = Len(dialog_action_keys) THEN "done" ELSE "ve_loop"
         ELSE /\ path_i' = path_i
              /\ pc' = "ve_aborted"
    /\ UNCHANGED <<now, job, es, vefu, ms, today, next_day, runs,
                   success_table, fps_table, fc_table, partition_vars>>

\* The cell of the success notebook when spark.run raises err; the shell
\* script goes on with the next notebook also when this one was aborted.
SuccessRunRaises(err) ==
    /\ pc = "success_query"
    /\ IF StatementExecuted(err)
         THEN InsertIntoSuccess(SetToBag(mediasearch_success_query(MSQuery(ms, next_day))))
         ELSE success_table' = success_table /\ appended' = EmptyBag
    /\ raised' = err
    /\ pc' = IF Ignored(err) THEN "filter_usage" ELSE "success_aborted"
    /\ UNCHANGED <<now, job, es, vefu, ms, today, path_i, next_day, runs,
                   ve_table, fps_table, fc_table, partition_vars>>

\* The first query cell of the filter usage notebook when spark.run raises err.
FiltersPerSessionRunRaises(err) ==
    /\ pc = "filters_per_session_query"
    /\ IF StatementExecuted(err)
         THEN InsertIntoFiltersPerSession(
                  SetToBag(filters_per_session_query(MSQuery(ms, next_day))))
         ELSE fps_table' = fps_table /\ appended' = EmptyBag
    /\ raised' = err
    /\ pc' = IF Ignored(err) THEN "filter_change_aggregate_query"
             ELSE "filters_per_session_aborted"
    /\ UNCHANGED <<now, job, es, vefu, ms, today, path_i, next_day, runs,
                   ve_table, success_table, fc_table, partition_vars>>

\* The second query cell of the filter usage notebook when spark.run raises err.
FilterChangeRunRaises(err) ==
    /\ pc = "filter_change_aggregate_query"
    /\ IF StatementExecuted(err)
         THEN InsertIntoFilterChange(filter_change_aggregate_query(MSQuery(ms, next_day)))
         ELSE fc_table' = fc_table /\ appended' = EmptyBag
    /\ raised' = err
    /\ pc' = IF Ignored(err) THEN "done" ELSE "filter_change_aborted"
    /\ UNCHANGED <<now, job, es, vefu, ms, today, path_i, next_day, runs,
                   ve_table, success_table, fps_table, partition_vars>>

\* The cron script has finished and is started once more for the same day.
Restart ==
    /\ pc = "done"
    /\ pc' = "idle"
    /\ UNCHANGED <<now, job, es, vefu, ms, notebook_vars, table_vars, partition_vars>>

\* A call of make_partition_statement on the dates p_start, p_end.
MakePartitionStatement ==
    /\ job = "make_partition_statement"
    /\ p_stmt = NoStatement
    /\ p_stmt' = make_partition_statement(DateOf(p_start), DateOf(p_end))
    /\ UNCHANGED <<now, job, pc, es, vefu, ms, notebook_vars, table_vars,
                   p_start, p_end>>

-----------------------------------------------------------------------------
(* Specifications                                                          *)

\* The state before a script starts: the event tables hold what was logged
\* so far, the output tables are empty.
InitScript(j, clock, ES, VEFU, MS) ==
    /\ now = clock
    /\ job = j
    /\ pc = "idle"
    /\ es = ES /\ vefu = VEFU /\ ms = MS
    /\ today = 0 /\ path_i = 0 /\ next_day = 0
    /\ raised = "none" /\ runs = 0
    /\ ve_table = EmptyBag /\ success_table = EmptyBag
    /\ fps_table = EmptyBag /\ fc_table = EmptyBag
    /\ appended = EmptyBag
    /\ p_stmt = NoStatement

\* The daily run of 2021-03-01, 04:00 UTC: data_day is 2021-02-28.
RunClock == Combine(Ordinal(2021, 3, 1), 4)

\* --- SpecPartition: make_partition_statement on every pair of dates.
InitPartition ==
    /\ InitScript("make_partition_statement", RunClock, {}, {}, {})
    /\ p_start \in Days
    /\ p_end \in {d \in Days : p_start <= d}

NextPartition == MakePartitionStatement

SpecPartition == InitPartition /\ [][NextPartition]_vars

\* Months since Origin's month.
MonthIndex(date) == (date.year - Origin.year) * 12 + date.month - Origin.month

\* start and end lie in the same calendar month or in two adjacent ones.
SameOrAdjacentMonths(s, e) == MonthIndex(DateOf(e)) - MonthIndex(DateOf(s)) \in {0, 1}

\* C9: for start <= end in the same month or in adjacent months (December and
\* January included), a partition (year, month, day) satisfies the statement
\* make_partition_statement produced iff its date lies in [start, end].
C9_PartitionStatementExact ==
    (p_stmt # NoStatement /\ p_start <= p_end /\ SameOrAdjacentMonths(p_start, p_end))
        => \A d \in Days :
              Selects(p_stmt, DateOf(d)) <=> (p_start <= d /\ d <= p_end)

\* A statement was produced for a range from December into January.
C9_Witness ==
    /\ p_stmt # NoStatement
    /\ p_start < p_end
    /\ DateOf(p_start).month = 12 /\ DateOf(p_end).month = 1
    /\ \E d \in Days : Selects(p_stmt, DateOf(d))
    /\ \E d \in Days : ~Selects(p_stmt, DateOf(d))

\* C10: the statement is the single conjunction (year = Y AND month = M AND
\* day BETWEEN D1 AND D2) exactly when start and end have the same year and
\* month, and otherwise the disjunction of two month-scoped clauses;
\* 2021-03-05..2021-03-07 gives the former, 2021-02-28..2021-03-01 the latter.
C10_StatementForm ==
    p_stmt # NoStatement =>
        LET s == DateOf(p_start)
            e == DateOf(p_end)
        IN  /\ (p_stmt.form = "between") <=> (s.year = e.year /\ s.month = e.month)
            /\ p_stmt.form = "between" =>
                  /\ p_stmt.year = s.year /\ p_stmt.month = s.month
                  /\ p_stmt.lo = s.day /\ p_stmt.hi = e.day
            /\ p_stmt.form # "between" =>
                  /\ p_stmt.form = "or"
                  /\ p_stmt.year1 = s.year /\ p_stmt.month1 = s.month
                  /\ p_stmt.from = s.day
                  /\ p_stmt.year2 = e.year /\ p_stmt.month2 = e.month
                  /\ p_stmt.upto = e.day
            /\ (p_start = Ordinal(2021, 3, 5) /\ p_end = Ordinal(2021, 3, 7)) =>
                  p_stmt = [form |-> "between", year |-> 2021, month |-> 3,
                            lo |-> 5, hi |-> 7]
            /\ (p_start = Ordinal(2021, 2, 28) /\ p_end = Ordinal(2021, 3, 1)) =>
                  p_stmt = [form |-> "or", year1 |-> 2021, month1 |-> 2, from |-> 28,
                            year2 |-> 2021, month2 |-> 3, upto |-> 1]

\* The statement for 2021-02-28..2021-03-01 was produced: same year, two months.
C10_Witness ==
    /\ p_start = Ordinal(2021, 2, 28)
    /\ p_end = Ordinal(2021, 3, 1)
    /\ p_stmt.form = "or"

\* --- SpecChain: the VE funnel on one session with up to MaxChainEvents
\* events of the "add media" path, at two instants of the data day and, for
\* the first steps and the save, at the cutoff.
MaxChainEvents == 6

ChainStamps == Stamps(RunClock, {0, 1, 25})

ChainES ==
    ESUniverse({"A"}, {"init"}, Stamps(RunClock, {0, 1}), {0})
    \cup ESUniverse({"A"}, {"saveSuccess"}, ChainStamps, {0})

ChainVEFU ==
    VEFUUniverse({"A"}, {"window-open-from-tool", "search-change-query"}, ChainStamps)
    \cup VEFUUniverse({"A"}, {"search-confirm-image", "dialog-insert"},
                      Stamps(RunClock, {0, 1}))

InitChain ==
    /\ InitScript("process_VE_media_funnel", RunClock, {}, {}, {})
    /\ p_start = 0 /\ p_end = 0

NextChain ==
    \/ \E e \in ChainES : LogSize < MaxChainEvents /\ EmitES(e)
    \/ \E e \in ChainVEFU : LogSize < MaxChainEvents /\ EmitVEFU(e)
    \/ VEDefineDates
    \/ VERunPath

SpecChain == InitChain /\ [][NextChain]_vars

\* The query instances the loop of the VE notebook runs on the current logs.
VEQueries ==
    {VEQuery(es, vefu, today, dialog_action_keys[i], first) :
       i \in DOMAIN dialog_action_keys, first \in FirstValues(es, today)}

\* The notebook has read the clock.
VEStarted == pc \in {"ve_loop", "done"}

\* The iteration for dialog_action_keys[i] has just appended its rows.
VEJustRan(i) == VEStarted /\ path_i = i + 1

Ids(step) == {r.editing_session_id : r \in step}

DtOf(step, s) == (CHOOSE r \in step : r.editing_session_id = s).dt

AppendedRows == BagToSet(appended)

\* cutoff_time = data_day + 1 day + 1 hour, for the run of day `t`.
CutoffTime(t) == Combine(t - 1, 0) + HoursPerDay + 1

\* The actions that step i (2 .. 5) of a path's funnel matches.
StepActions(path_type, i) ==
    CASE i = 2 -> {open_action(path_type)}
      [] i = 3 -> {"search-change-query"}
      [] i = 4 -> {"search-confirm-image"}
      [] i = 5 -> close_regexp(path_type)

\* The rows of step i (1 .. 6) of a query instance.
StepRows(q, i) ==
    CASE i = 1 -> step_1(q)
      [] i = 2 -> step_2(q)
      [] i = 3 -> step_3(q)
      [] i = 4 -> step_4(q)
      [] i = 5 -> step_5(q)
      [] i = 6 -> step_6(q)

\* C1: in the VE funnel a session is counted as completing step i (2 .. 6)
\* only if it is counted as completing step i-1, and the timestamp chosen for
\* step i (2 .. 5) is at least the timestamp chosen for step i-1; so the
\* counts of an appended row never increase along the funnel.
C1_StepsChained ==
    VEStarted =>
        /\ \A q \in VEQueries : \A i \in 2 .. 6 :
              LET cur  == StepRows(q, i)
                  prev == StepRows(q, i - 1)
              IN  /\ Ids(cur) \subseteq Ids(prev)
                  /\ i <= 5 => \A r \in cur : \A p \in prev :
                        p.editing_session_id = r.editing_session_id => r.dt >= p.dt
        /\ \A r \in AppendedRows :
              /\ r.num_edit_sessions >= r.num_dialog_opens
              /\ r.num_dialog_opens >= r.num_media_searches
              /\ r.num_media_searches >= r.num_media_confirms
              /\ r.num_media_confirms >= r.num_dialog_close
              /\ r.num_dialog_close >= r.num_edit_saves

\* The "add media" iteration counted a session through the closing of the
\* dialog although the log also holds a search event older than the opening
\* of the dialog.
C1_Witness ==
    /\ VEJustRan(1)
    /\ \E r \in AppendedRows : r.num_dialog_close = 1
    /\ \E q \in VEQueries : \E s \in Ids(step_2(q)) : \E v \in vefu :
          /\ v.editingsessionid = s
          /\ v.action = "search-change-query"
          /\ v.dt < DtOf(step_2(q), s)

\* C3: an event of step i (2 .. 5) whose timestamp equals the timestamp of
\* the session's step i-1 lets the session complete step i, and a saveSuccess
\* event whose timestamp equals that of step 5 lets it complete step 6.
C3_TiesAllowed ==
    VEStarted =>
        \A q \in VEQueries :
          /\ \A i \in 2 .. 5 : \A r \in StepRows(q, i - 1) :
                (\E v \in vefu :
                    /\ v.editingsessionid = r.editing_session_id
                    /\ v.feature = "media"
                    /\ v.action \in StepActions(q.path_type, i)
                    /\ v.dt = r.dt)
                => /\ r.editing_session_id \in Ids(StepRows(q, i))
                   /\ DtOf(StepRows(q, i), r.editing_session_id) = r.dt
          /\ \A r \in step_5(q) :
                (\E e \in es :
                    /\ e.editing_session_id = r.editing_session_id
                    /\ e.action = "saveSuccess"
                    /\ e.dt = r.dt)
                => r.editing_session_id \in Ids(step_6(q))

\* All six events of the session carry one timestamp and the "add media"
\* iteration counted the session at every step, the save included.
C3_Witness ==
    /\ VEJustRan(1)
    /\ \E r \in AppendedRows : r.num_dialog_opens = 1 /\ r.num_edit_saves = 1
    /\ \E t \in ChainStamps :
          (\A e \in es : e.dt = t) /\ (\A v \in vefu : v.dt = t)

\* C6: for steps 2 .. 5 the step's timestamp is the minimum timestamp among
\* the session's events that match the step's predicate, are not older than
\* step i-1 and are older than the cutoff; without such an event the session
\* has no row in step i.
C6_StepIsEarliestMatch ==
    VEStarted =>
        \A q \in VEQueries : \A i \in 2 .. 5 : \A r \in StepRows(q, i - 1) :
            LET cand == {v.dt : v \in {x \in vefu :
                            /\ x.editingsessionid = r.editing_session_id
                            /\ x.feature = "media"
                            /\ x.action \in StepActions(q.path_type, i)
                            /\ x.dt >= r.dt
                            /\ x.dt < CutoffTime(today)}}
            IN  IF cand = {}
                  THEN r.editing_session_id \notin Ids(StepRows(q, i))
                  ELSE /\ r.editing_session_id \in Ids(StepRows(q, i))
                       /\ DtOf(StepRows(q, i), r.editing_session_id) \in cand
                       /\ \A t \in cand :
                             DtOf(StepRows(q, i), r.editing_session_id) <= t

\* The dialog was opened twice after the start, the earlier opening was taken,
\* and a search logged at the cutoff gave the session no step 3.
C6_Witness ==
    /\ VEJustRan(1)
    /\ \E q \in VEQueries : \E s \in Ids(step_2(q)) :
          /\ \E v \in vefu :
                /\ v.editingsessionid = s
                /\ v.action = "window-open-from-tool"
                /\ v.dt > DtOf(step_2(q), s)
                /\ v.dt < CutoffTime(today)
          /\ \E v \in vefu :
                /\ v.editingsessionid = s
                /\ v.action = "search-change-query"
                /\ v.dt = CutoffTime(today)
          /\ s \notin Ids(step_3(q))

\* --- SpecDaily: one daily run of either cron script.  Session "A" has
\* logged a complete funnel; up to MaxDailyEvents events of session "B" are
\* logged around the data day before the script starts.
MaxDailyEvents == 4

At(o) == Combine(DataDayAt(RunClock), 0) + o

BaseES ==
    {ESEvent("A", "init", At(0), TO_DATE(At(0)), 0, FALSE, "visualeditor"),
     ESEvent("A", "saveSuccess", At(0), TO_DATE(At(0)), 0, FALSE, "visualeditor")}

BaseVEFU ==
    {VEFUEvent("A", "media", a, At(0), TO_DATE(At(0))) :
       a \in {"window-open-from-tool", "search-change-query",
              "search-confirm-image", "dialog-insert"}}

BaseMS ==
    {MSEvent("A", "search_new", At(0), TO_DATE(At(0)), "", "", 0),
     MSEvent("A", "filter_change", At(0), TO_DATE(At(0)), "mimeType", "jpeg", 0),
     MSEvent("A", "result_click", At(1), TO_DATE(At(1)), "", "", 1)}
    \cup {MSEvent("A", a, At(2), TO_DATE(At(2)), "", "", 0) :
            a \in {"quickview_more_details_click", "quickview_filename_copy",
                   "quickview_wikitext_link_copy", "quickview_media_play"}}

DailyES ==
    ESUniverse({"B"}, {"init"}, {At(-1), At(0), At(1)}, {0})
    \cup {ESEvent("B", "init", At(0), TO_DATE(At(0)), 1, FALSE, "visualeditor"),
          ESEvent("B", "init", At(0), TO_DATE(At(0)), 0, TRUE, "visualeditor"),
          ESEvent("B", "init", At(0), TO_DATE(At(0)), 0, FALSE, "wikitext")}
    \cup ESUniverse({"B"}, {"saveSuccess"}, {At(1), At(25)}, {0})

DailyVEFU ==
    VEFUUniverse({"B"}, {"window-open-from-tool"}, {At(0), At(1), At(25)})
    \cup VEFUUniverse({"B"}, {"search-change-query"}, {At(0), At(1)})
    \cup VEFUUniverse({"B"}, {"search-confirm-image", "dialog-insert"}, {At(1)})
    \cup {VEFUEvent("B", "link", "window-open-from-tool", At(1), TO_DATE(At(1)))}

DailyMS ==
    UNION {{MSEvent("B", "search_new", At(o), p, "", "", 0) : p \in PartsOf(At(o))} :
           o \in {-1, 0, 1}}
    \cup {MSEvent("B", "filter_change", At(o), TO_DATE(At(o)), "mimeType", "jpeg", 0) :
            o \in {0, 25}}
    \cup {MSEvent("B", "filter_change", At(1), TO_DATE(At(1)), "mimeType", "", 0)}
    \cup {MSEvent("B", "result_click", At(o), TO_DATE(At(o)), "", "", 2) :
            o \in {0, 1, 25}}
    \cup {MSEvent("B", "quickview_more_details_click", At(o), TO_DATE(At(o)), "", "", 0) :
            o \in {1, 2, 25}}
    \cup {MSEvent("B", a, At(2), TO_DATE(At(2)), "", "", 0) :
            a \in {"quickview_filename_copy", "quickview_wikitext_link_copy",
                   "quickview_media_play"}}

DailyEmitted ==
    LogSize - Cardinality(BaseES) - Cardinality(BaseVEFU) - Cardinality(BaseMS)

InitDaily ==
    /\ \E j \in {"process_VE_media_funnel", "aggregate_commons_searches"} :
          InitScript(j, RunClock, BaseES, BaseVEFU, BaseMS)
    /\ p_start = 0 /\ p_end = 0

NextDaily ==
    \/ \E e \in DailyES :
          job = "process_VE_media_funnel" /\ DailyEmitted < MaxDailyEvents /\ EmitES(e)
    \/ \E e \in DailyVEFU :
          job = "process_VE_media_funnel" /\ DailyEmitted < MaxDailyEvents /\ EmitVEFU(e)
    \/ \E e \in DailyMS :
          job = "aggregate_commons_searches" /\ DailyEmitted < MaxDailyEvents /\ EmitMS(e)
    \/ VEDefineDates
    \/ VERunPath
    \/ SuccessDefineDates
    \/ SuccessRun
    \/ FilterDefineDates
    \/ FiltersPerSessionRun
    \/ FilterChangeRun

SpecDaily == InitDaily /\ [][NextDaily]_vars

\* The query instance of the MediaSearch notebooks on the current log.
MSRunQuery == MSQuery(ms, next_day)

\* The rows mediasearch_success_query appended are the latest ones.
SuccessJustRan == pc \in {"filter_usage", "filters_per_session_query"}

\* The rows filters_per_session_query appended are the latest ones.
FiltersPerSessionJustRan == pc = "filter_change_aggregate_query"

\* The rows filter_change_aggregate_query appended are the latest ones.
FilterChangeJustRan == pc = "done" /\ job = "aggregate_commons_searches"

\* The iteration of the VE loop whose rows are the latest ones.
VELastPath == dialog_action_keys[path_i - 1]

VESomeRan == VEStarted /\ path_i >= 2

\* The start_time the VE query gives a session: a set of at most one instant.
VEStartOf(s) ==
    {r.dt : r \in {x \in step_1([es |-> es, today |-> today,
                                  first |-> [i \in Ids(step_1_rows(
                                      [es |-> es, today |-> today])) |-> 0]]) :
                     x.editing_session_id = s}}

\* The start_time the MediaSearch queries give a session.
MSStartOf(s) ==
    {m.session_start_dt : m \in {x \in mediasearch_sessions(MSRunQuery) :
                                   x.session_id = s}}

\* An instant outside [start_time, cutoff_time) of a session with these starts.
OutOfWindow(starts, cutoff, dt) == dt >= cutoff \/ \E t0 \in starts : dt < t0

TrimmedES ==
    {e \in es : ~OutOfWindow(VEStartOf(e.editing_session_id), CutoffTime(today), e.dt)}

TrimmedVEFU ==
    {v \in vefu : ~OutOfWindow(VEStartOf(v.editingsessionid), CutoffTime(today), v.dt)}

TrimmedMS ==
    {e \in ms : ~OutOfWindow(MSStartOf(e.web_pageview_id), CutoffTime(next_day), e.dt)}

\* As TrimmedMS, but a filter_change event older than the start is kept.
TrimmedMSKeepingFilters ==
    {e \in ms :
        \/ ~OutOfWindow(MSStartOf(e.web_pageview_id), CutoffTime(next_day), e.dt)
        \/ e.action = "filter_change" /\ e.dt < CutoffTime(next_day)}

\* The rows a VE iteration appended are those of the log without the events
\* outside the sessions' windows.
VEWindowOnly ==
    VESomeRan =>
        \E first \in FirstValues(es, today) :
            appended = SetToBag(edit_funnel_query(
                VEQuery(TrimmedES, TrimmedVEFU, today, VELastPath, first)))

\* The rows the MediaSearch queries appended are those of the log MS.
MSRowsFrom(MS) ==
    /\ SuccessJustRan =>
          appended = SetToBag(mediasearch_success_query(MSQuery(MS, next_day)))
    /\ FiltersPerSessionJustRan =>
          appended = SetToBag(filters_per_session_query(MSQuery(MS, next_day)))
    /\ FilterChangeJustRan =>
          appended = filter_change_aggregate_query(MSQuery(MS, next_day))

\* C2 as stated: in every aggregation no event older than the session's
\* start_time and no event at or after cutoff_time contributes: the appended
\* rows are those computed from the log without these events.
C2_NoEventOutsideWindow == VEWindowOnly /\ MSRowsFrom(TrimmedMS)

\* C2 amended: no event at or after cutoff_time contributes to any
\* aggregation, and no event older than start_time contributes to the VE
\* funnel, the result clicks, the quickview actions or the median; a
\* filter_change event older than start_time does count for filter usage,
\* filters per session and filter-change counts.
C2_WindowExceptFilters ==
    /\ VEWindowOnly
    /\ MSRowsFrom(TrimmedMSKeepingFilters)
    /\ SuccessJustRan =>
          \A m \in mediasearch_sessions(MSRunQuery) :
              (\E e \in ms : /\ e.web_pageview_id = m.session_id
                             /\ e.action = "filter_change"
                             /\ e.dt < m.session_start_dt)
              => m.session_id \in {f.session_id : f \in mediasearch_filters(MSRunQuery)}

\* Session B started an hour into the data day after a filter change and a
\* result click, and clicked again at the cutoff: both sessions are counted
\* as filter users, only session A as having clicked a result.
C2_Witness ==
    /\ SuccessJustRan
    /\ \E e \in ms : e.web_pageview_id = "B" /\ e.action = "filter_change"
                     /\ \E t0 \in MSStartOf("B") : e.dt < t0
    /\ \E e \in ms : e.web_pageview_id = "B" /\ e.action = "result_click"
                     /\ \E t0 \in MSStartOf("B") : e.dt < t0
    /\ \E e \in ms : e.web_pageview_id = "B" /\ e.action = "result_click"
                     /\ e.dt >= CutoffTime(next_day)
    /\ \E r \in AppendedRows :
          /\ r.num_mediasearch_sessions = 2
          /\ r.num_used_filter = 2
          /\ r.num_result_clicked = 1

\* The MediaSearch notebook has read the clock.
MSStarted == job = "aggregate_commons_searches" /\ pc # "idle"

\* The quickview actions and the marker column of each.
QuickviewColumns ==
    {<<"quickview_more_details_click", "file_page_click">>,
     <<"quickview_filename_copy", "filename_copy">>,
     <<"quickview_wikitext_link_copy", "wikitext_copy">>,
     <<"quickview_media_play", "played_media">>}

\* C4: a result_click whose timestamp equals the session's start_time counts
\* as the session's result click, and a quickview action whose timestamp
\* equals that of the first result click counts for the session.
C4_SearchTiesAllowed ==
    MSStarted =>
        /\ \A m \in mediasearch_sessions(MSRunQuery) :
              (\E e \in ms : /\ e.web_pageview_id = m.session_id
                             /\ e.action = "result_click"
                             /\ e.dt = m.session_start_dt)
              => \E mq \in mediasearch_quickview(MSRunQuery) :
                    mq.session_id = m.session_id /\ mq.clicked_result # NULL
        /\ \A mq \in mediasearch_quickview(MSRunQuery) :
              \A e \in ms :
                (e.web_pageview_id = mq.session_id /\ e.dt = mq.first_click_dt) =>
                    \A c \in QuickviewColumns :
                        e.action = c[1] =>
                            \E ma \in mediasearch_result_actions(MSRunQuery) :
                                ma.session_id = mq.session_id /\ ma[c[2]] # NULL

\* The session-start events of a session in the partitions a notebook scans.
VEStartEvents(s) ==
    {e \in es :
        /\ e.editing_session_id = s
        /\ e.action = "init"
        /\ e.is_oversample = FALSE
        /\ e.editor_interface = "visualeditor"
        /\ \E d \in (today - 1) .. today : e.part = d}

MSStartEvents(s) ==
    {e \in ms :
        /\ e.web_pageview_id = s
        /\ e.action = "search_new"
        /\ \E d \in (next_day - 2) .. next_day : e.part = d}

\* The sessions whose earliest start event falls on `day`, with that instant.
SessionsOfInterest(ids, starts(_), day) ==
    {<<s, MinOf({e.dt : e \in starts(s)})>> :
       s \in {x \in ids : /\ starts(x) # {}
                          /\ TO_DATE(MinOf({e.dt : e \in starts(x)})) = day}}

\* C5: a session's start_time is the minimum timestamp of its session-start
\* events in the scanned window, and the session is aggregated for data_day
\* iff that minimum falls on data_day: a session with a start event before
\* data_day is not counted even if it has another one on data_day, and a
\* session without start event is never counted.
C5_StartIsEarliestStartEvent ==
    /\ VEStarted =>
          \A q \in VEQueries :
              {<<r.editing_session_id, r.dt>> : r \in step_1(q)}
                = SessionsOfInterest({e.editing_session_id : e \in es},
                                     VEStartEvents, today - 1)
    /\ MSStarted =>
          {<<m.session_id, m.session_start_dt>> : m \in mediasearch_sessions(MSRunQuery)}
            = SessionsOfInterest({e.web_pageview_id : e \in ms},
                                 MSStartEvents, next_day - 1)

\* The sessions of a group of the VE query, and those with a row in step i.
VEGroup(q, d, n) ==
    {r.editing_session_id : r \in {x \in step_1(q) :
                                     TO_DATE(x.dt) = d /\ x.namespace = n}}

VEPresent(q, group, i) == Cardinality(group \cap Ids(StepRows(q, i)))

VEExpectedRows(q) ==
    {[log_date |-> TO_DATE(r.dt),
      namespace |-> r.namespace,
      path_type |-> q.path_type,
      num_edit_sessions  |-> Cardinality(VEGroup(q, TO_DATE(r.dt), r.namespace)),
      num_dialog_opens   |-> VEPresent(q, VEGroup(q, TO_DATE(r.dt), r.namespace), 2),
      num_media_searches |-> VEPresent(q, VEGroup(q, TO_DATE(r.dt), r.namespace), 3),
      num_media_confirms |-> VEPresent(q, VEGroup(q, TO_DATE(r.dt), r.namespace), 4),
      num_dialog_close   |-> VEPresent(q, VEGroup(q, TO_DATE(r.dt), r.namespace), 5),
      num_edit_saves     |-> VEPresent(q, VEGroup(q, TO_DATE(r.dt), r.namespace), 6)] :
     r \in step_1(q)}

\* The sessions of interest of a log_date, and those with a marker.
MSGroup(d) ==
    {m.session_id : m \in {x \in mediasearch_sessions(MSRunQuery) :
                             TO_DATE(x.session_start_dt) = d}}

MSPresent(group, cte, column) ==
    Cardinality({s \in group : \E r \in cte : r.session_id = s /\ r[column] # NULL})

\* C8: every presence-count column equals the number of sessions of interest
\* of the group whose marker for the step is present; a session without the
\* step adds nothing to the column and is still counted in the session total.
\* Each group has exactly one row.
C8_PresenceCounts ==
    /\ VESomeRan =>
          \E first \in FirstValues(es, today) :
              appended = SetToBag(VEExpectedRows(
                  VEQuery(es, vefu, today, VELastPath, first)))
    /\ SuccessJustRan =>
          /\ \A r \in AppendedRows :
                /\ appended[r] = 1
                /\ \A o \in AppendedRows : o.log_date = r.log_date => o = r
                /\ r.num_mediasearch_sessions = Cardinality(MSGroup(r.log_date))
                /\ r.num_used_filter = MSPresent(MSGroup(r.log_date),
                      mediasearch_filters(MSRunQuery), "used_filter")
                /\ r.num_result_clicked = MSPresent(MSGroup(r.log_date),
                      mediasearch_quickview(MSRunQuery), "clicked_result")
                /\ r.num_filepage_clicked = MSPresent(MSGroup(r.log_date),
                      mediasearch_result_actions(MSRunQuery), "file_page_click")
                /\ r.num_filename_copied = MSPresent(MSGroup(r.log_date),
                      mediasearch_result_actions(MSRunQuery), "filename_copy")
                /\ r.num_wikitext_copied = MSPresent(MSGroup(r.log_date),
                      mediasearch_result_actions(MSRunQuery), "wikitext_copy")
                /\ r.num_media_played = MSPresent(MSGroup(r.log_date),
                      mediasearch_result_actions(MSRunQuery), "played_media")
          /\ {r.log_date : r \in AppendedRows}
               = {TO_DATE(m.session_start_dt) : m \in mediasearch_sessions(MSRunQuery)}

\* Both sessions are of interest; session B clicked a result and opened the
\* file page but used no filter and copied nothing.
C8_Witness ==
    /\ SuccessJustRan
    /\ \E r \in AppendedRows :
          /\ r.num_mediasearch_sessions = 2
          /\ r.num_used_filter = 1
          /\ r.num_result_clicked = 2
          /\ r.num_filepage_clicked = 2
          /\ r.num_filename_copied = 1
          /\ r.num_media_played = 1

\* --- SpecScenario: the run of 2021-03-11 on the logs of three sessions of
\* 2021-03-10.  Session A has the events of steps 1-4 in order, session B
\* those of steps 1-2 and possibly later-step events that do not qualify,
\* session C media events but no qualifying init event.
ScenarioClock == Combine(Ordinal(2021, 3, 11), 4)

ScenarioDay == Ordinal(2021, 3, 10)

ScenarioAt(o) == Combine(ScenarioDay, 0) + o

ScenarioInit(s, o, ns, over, iface) ==
    ESEvent(s, "init", ScenarioAt(o), TO_DATE(ScenarioAt(o)), ns, over, iface)

ScenarioMedia(s, a, o) ==
    VEFUEvent(s, "media", a, ScenarioAt(o), TO_DATE(ScenarioAt(o)))

\* Hours of the data day at which the sessions act; 24 is within the grace hour.
ScenarioHours == {0, 1, 24}

\* What session C logged instead of a qualifying init event.
ScenarioStartsOfC(ns) ==
    {{},
     {ScenarioInit("C", 0, ns, TRUE, "visualeditor")},
     {ScenarioInit("C", 0, ns, FALSE, "wikitext")},
     {ScenarioInit("C", -1, ns, FALSE, "visualeditor")},
     {ScenarioInit("C", 24, ns, FALSE, "visualeditor")}}

\* Events of session B that complete no further step.
ScenarioExtrasOfB(b2) ==
    SUBSET {ScenarioMedia("B", "search-change-query", 25),
            ScenarioMedia("B", "search-confirm-image", b2)}

InitScenario ==
    /\ \E a \in [1 .. 4 -> ScenarioHours], b \in [1 .. 2 -> ScenarioHours],
          ns \in {0, 6} :
        /\ a[1] < HoursPerDay /\ a[1] <= a[2] /\ a[2] <= a[3] /\ a[3] <= a[4]
        /\ b[1] < HoursPerDay /\ b[1] <= b[2]
        /\ \E c \in ScenarioStartsOfC(ns), x \in ScenarioExtrasOfB(b[2]) :
             InitScript("process_VE_media_funnel", ScenarioClock,
                {ScenarioInit("A", a[1], ns, FALSE, "visualeditor"),
                 ScenarioInit("B", b[1], ns, FALSE, "visualeditor")} \cup c,
                {ScenarioMedia("A", "window-open-from-tool", a[2]),
                 ScenarioMedia("A", "search-change-query", a[3]),
                 ScenarioMedia("A", "search-confirm-image", a[4]),
                 ScenarioMedia("B", "window-open-from-tool", b[2]),
                 ScenarioMedia("C", "window-open-from-tool", 0),
                 ScenarioMedia("C", "search-change-query", 0),
                 ScenarioMedia("C", "search-confirm-image", 0)} \cup x,
                {})
    /\ p_start = 0 /\ p_end = 0

NextScenario == VEDefineDates \/ VERunPath

SpecScenario == InitScenario /\ [][NextScenario]_vars

\* C7: with sessions A (steps 1-4), B (steps 1-2) and C (no qualifying start)
\* on one data day in one namespace, the run of a path type appends exactly
\* one row, for that log_date, counting two sessions; for the path the
\* sessions followed the counts of steps 1-4 are 2, 2, 1, 1, and session C
\* is in no step.
C7_ThreeSessionScenario ==
    VESomeRan =>
        /\ Cardinality(AppendedRows) = 1
        /\ \A r \in AppendedRows :
              /\ appended[r] = 1
              /\ r.log_date = ScenarioDay
              /\ r.path_type = VELastPath
              /\ r.num_edit_sessions = 2
              /\ VEJustRan(1) =>
                    /\ r.num_dialog_opens = 2
                    /\ r.num_media_searches = 1
                    /\ r.num_media_confirms = 1
        /\ \A q \in VEQueries : \A i \in 1 .. 6 : "C" \notin Ids(StepRows(q, i))

\* The "add media" iteration appended the row 2, 2, 1, 1 although session C
\* logged an oversampled init event and session B a search at the cutoff.
C7_Witness ==
    /\ VEJustRan(1)
    /\ \E e \in es : e.editing_session_id = "C" /\ e.is_oversample
    /\ \E v \in vefu : v.editingsessionid = "B" /\ v.action = "search-change-query"
    /\ \E r \in AppendedRows :
          /\ r.num_edit_sessions = 2 /\ r.num_dialog_opens = 2
          /\ r.num_media_searches = 1 /\ r.num_media_confirms = 1

-----------------------------------------------------------------------------
(* The filter usage of one day                                              *)

\* --- SpecFilters: one run of aggregate_commons_searches.sh over a log of
\* filter changes.  Session "A" has searched on the data day; up to
\* MaxFilterEvents further events are logged before the script starts:
\* searches of session "B" and filter changes of both sessions, with an empty
\* value, the value 'reset' and an ordinary value.
MaxFilterEvents == 4

FilterBase == {MSEvent("A", "search_new", At(0), TO_DATE(At(0)), "", "", 0)}

FilterLog ==
    {MSEvent("B", "search_new", At(o), TO_DATE(At(o)), "", "", 0) : o \in {-1, 0}}
    \cup {MSEvent(s, "filter_change", At(o), TO_DATE(At(o)), "mimeType", v, 0) :
            s \in {"A", "B"}, o \in {0, 1}, v \in {"", "reset", "jpeg"}}
    \cup {MSEvent(s, "filter_change", At(0), TO_DATE(At(0)), "imageSize", "", 0) :
            s \in {"A", "B"}}
    \cup {MSEvent("A", "filter_change", At(25), TO_DATE(At(25)), "mimeType", "", 0)}

InitFilters ==
    /\ InitScript("aggregate_commons_searches", RunClock, {}, {}, FilterBase)
    /\ p_start = 0 /\ p_end = 0

NextFilters ==
    \/ \E e \in FilterLog :
          Cardinality(ms) - Cardinality(FilterBase) < MaxFilterEvents /\ EmitMS(e)
    \/ SuccessDefineDates
    \/ SuccessRun
    \/ FilterDefineDates
    \/ FiltersPerSessionRun
    \/ FilterChangeRun

SpecFilters == InitFilters /\ [][NextFilters]_vars

\* The filter_change events with an empty value that a run counts for a
\* log_date and a filter type: those of the sessions of interest of the date,
\* before the cutoff.
EmptyValuedChanges(d, ftype) ==
    {e \in ms :
        /\ e.action = "filter_change"
        /\ e.search_filter_type = ftype
        /\ e.search_filter_value = ""
        /\ e.dt < CutoffTime(next_day)
        /\ e.web_pageview_id \in MSGroup(d)}

\* C11: in the rows appended by the filter-change aggregation no row has an
\* empty filter_value, and for each (log_date, filter_type) with empty-valued
\* filter changes a row labelled 'reset' carries their count.
C11_EmptyValueIsReset ==
    FilterChangeJustRan =>
        /\ \A row \in AppendedRows : row.filter_value # ""
        /\ \A ftype \in {e.search_filter_type : e \in ms} :
              LET empties == EmptyValuedChanges(data_day(next_day), ftype)
              IN  empties # {} =>
                    \E row \in AppendedRows :
                        /\ row.log_date = data_day(next_day)
                        /\ row.filter_type = ftype
                        /\ row.filter_value = "reset"
                        /\ row.num_changes = Cardinality(empties)

\* Two sessions reset the same filter, three empty-valued events in all.
C11_Witness ==
    /\ FilterChangeJustRan
    /\ Cardinality(EmptyValuedChanges(data_day(next_day), "mimeType")) = 3
    /\ \E row \in AppendedRows :
          row.filter_type = "mimeType" /\ row.filter_value = "reset"
          /\ row.num_changes = 3

-----------------------------------------------------------------------------
(* The result clicks of one day                                             *)

\* --- SpecSuccess: one run of aggregate_commons_searches.sh over a log of
\* searches and result clicks.  Up to MaxClickEvents events are logged before
\* the script starts; the log may hold no search at all.
MaxClickEvents == 5

ClickLog ==
    {MSEvent("A", "search_new", At(0), TO_DATE(At(0)), "", "", 0),
     MSEvent("B", "search_new", At(0), TO_DATE(At(0)), "", "", 0),
     MSEvent("B", "search_new", At(24), TO_DATE(At(24)), "", "", 0)}
    \cup {MSEvent("A", "result_click", At(o), TO_DATE(At(o)), "", "", pos) :
            o \in {1, 2}, pos \in {1, 2, 5}}
    \cup {MSEvent("B", "result_click", At(1), TO_DATE(At(1)), "", "", pos) :
            pos \in {2, 5}}
    \cup {MSEvent("A", "result_click", At(o), TO_DATE(At(o)), "", "", 9) :
            o \in {0, 25}}

InitSuccess ==
    /\ InitScript("aggregate_commons_searches", RunClock, {}, {}, {})
    /\ p_start = 0 /\ p_end = 0

NextSuccess ==
    \/ \E e \in ClickLog : Cardinality(ms) < MaxClickEvents /\ EmitMS(e)
    \/ SuccessDefineDates
    \/ SuccessRun
    \/ FilterDefineDates
    \/ FiltersPerSessionRun
    \/ FilterChangeRun

SpecSuccess == InitSuccess /\ [][NextSuccess]_vars

\* The result_click events of the sessions of interest of a log_date that lie
\* after the start of their session and before the cutoff.
QualifyingClicks(d) ==
    {e \in ms :
        /\ e.action = "result_click"
        /\ e.web_pageview_id \in MSGroup(d)
        /\ \A t0 \in MSStartOf(e.web_pageview_id) : e.dt > t0
        /\ e.dt < CutoffTime(next_day)}

\* The search_result_position values of a set of events in ascending order.
RECURSIVE SortedPositions(_)
SortedPositions(events) ==
    IF events = {} THEN <<>>
    ELSE LET least == CHOOSE e \in events :
                        \A o \in events :
                            e.search_result_position <= o.search_result_position
         IN  <<least.search_result_position>>
                \o SortedPositions(events \ {least})

\* Twice the median of a non-empty ascending sequence.
MedianX2(sorted) ==
    LET n == Len(sorted)
    IN  IF n % 2 = 1 THEN 2 * sorted[(n + 1) \div 2]
        ELSE sorted[n \div 2] + sorted[n \div 2 + 1]

\* C12: median_position_clicked of an appended row is the median of
\* search_result_position over all qualifying result_click events of the
\* sessions of interest of the date (positions 1, 2, 2, 5 give 2.0), and 0.0
\* when the date has sessions of interest and no qualifying result_click.
C12_MedianPosition ==
    SuccessJustRan =>
        \A row \in AppendedRows :
            LET clicks == QualifyingClicks(row.log_date)
            IN  row.median_position_clicked_x2 =
                    IF clicks = {} THEN 0
                    ELSE MedianX2(SortedPositions(clicks))

\* The clicked positions of the date are 1, 2, 2, 5 and the row holds 2.0.
C12_Witness ==
    /\ SuccessJustRan
    /\ \E row \in AppendedRows :
          /\ SortedPositions(QualifyingClicks(row.log_date)) = <<1, 2, 2, 5>>
          /\ row.median_position_clicked_x2 = 4


\* C13 (amended): a completed run of the success aggregation appends exactly
\* one row, for log_date = data_day, when the log holds at least one session
\* of interest of data_day, with or without qualifying result_click events;
\* it appends no row when there is no such session.
C13_OneRowWhenSessions ==
    SuccessJustRan =>
        IF MSGroup(data_day(next_day)) # {}
          THEN /\ BagCardinality(appended) = 1
               /\ \A row \in AppendedRows : row.log_date = data_day(next_day)
          ELSE appended = EmptyBag

\* A session of interest without qualifying result_click: one row.
C13_Witness ==
    /\ SuccessJustRan
    /\ MSGroup(data_day(next_day)) # {}
    /\ QualifyingClicks(data_day(next_day)) = {}
    /\ \E e \in ms : e.action = "result_click"
    /\ BagCardinality(appended) = 1

\* C13 (as stated): every completed run appends exactly one row for
\* log_date = data_day, whatever the log contains.
C13_AlwaysOneRow ==
    SuccessJustRan =>
        /\ BagCardinality(appended) = 1
        /\ \A row \in AppendedRows : row.log_date = data_day(next_day)

-----------------------------------------------------------------------------
(* Running a script again                                                   *)

\* --- SpecRerun: a cron script is run up to MaxRuns times over the same log.
\* Session "A" has logged a complete funnel; up to MaxRerunEvents events of
\* session "B" are logged before the first run, among them two init events of
\* one instant on pages of different namespaces.
MaxRerunEvents == 2

MaxRuns == 2

RerunES ==
    {ESEvent("B", "init", At(0), TO_DATE(At(0)), ns, FALSE, "visualeditor") :
       ns \in {0, 1}}

RerunVEFU == {VEFUEvent("B", "media", "window-open-from-tool", At(0), TO_DATE(At(0)))}

RerunMS ==
    {MSEvent("B", "search_new", At(0), TO_DATE(At(0)), "", "", 0),
     MSEvent("B", "filter_change", At(0), TO_DATE(At(0)), "mimeType", "", 0),
     MSEvent("B", "result_click", At(1), TO_DATE(At(1)), "", "", 2)}

NextRerun ==
    \/ \E e \in RerunES :
          /\ job = "process_VE_media_funnel"
          /\ runs = 0 /\ DailyEmitted < MaxRerunEvents /\ EmitES(e)
    \/ \E e \in RerunVEFU :
          /\ job = "process_VE_media_funnel"
          /\ runs = 0 /\ DailyEmitted < MaxRerunEvents /\ EmitVEFU(e)
    \/ \E e \in RerunMS :
          /\ job = "aggregate_commons_searches"
          /\ runs = 0 /\ DailyEmitted < MaxRerunEvents /\ EmitMS(e)
    \/ VEDefineDates
    \/ VERunPath
    \/ SuccessDefineDates
    \/ SuccessRun
    \/ FilterDefineDates
    \/ FiltersPerSessionRun
    \/ FilterChangeRun
    \/ runs < MaxRuns /\ Restart

SpecRerun == InitDaily /\ [][NextRerun]_vars

\* No row of the table is changed or removed by the step.
AppendOnly(table, table_after) ==
    \A row \in DOMAIN table :
        row \in DOMAIN table_after /\ table_after[row] >= table[row]

\* The rows of the VE table written for one path type.
VERowsOf(path_type) ==
    [row \in {r \in DOMAIN ve_table : r.path_type = path_type} |-> ve_table[row]]

\* The second run has appended its rows, and the table holds exactly two
\* copies of them.
SecondRunDuplicates(just_ran, table) ==
    (runs = 2 /\ just_ran) => table = appended (+) appended

\* Every query of the run gives one result on the log: no session of the VE
\* log has start events with different page_ns (FIRST_VALUE has one answer).
QueriesDeterministic ==
    job = "process_VE_media_funnel" => Cardinality(FirstValues(es, today)) = 1

\* C14 (amended): no step changes or removes a row of an output table; after
\* a second run over the same log each MediaSearch table holds two identical
\* sets of rows, and so does the VE table when no session has start events
\* with different page_ns.
C14_AppendOnlyDuplicates ==
    /\ [][/\ AppendOnly(ve_table, ve_table')
          /\ AppendOnly(success_table, success_table')
          /\ AppendOnly(fps_table, fps_table')
          /\ AppendOnly(fc_table, fc_table')]_vars
    /\ [](/\ SecondRunDuplicates(SuccessJustRan, success_table)
          /\ SecondRunDuplicates(FiltersPerSessionJustRan, fps_table)
          /\ SecondRunDuplicates(FilterChangeJustRan, fc_table)
          /\ (runs = 2 /\ VESomeRan /\ QueriesDeterministic) =>
                VERowsOf(VELastPath) = appended (+) appended)

\* The second run of the filter-change aggregation has duplicated its rows.
C14_Witness ==
    /\ runs = 2
    /\ FilterChangeJustRan
    /\ appended # EmptyBag
    /\ fc_table = appended (+) appended

\* C14 (as stated): running an aggregation twice for the same data_day over
\* the same log leaves two identical sets of rows in its table.
C14_TwoIdenticalSets ==
    /\ SecondRunDuplicates(SuccessJustRan, success_table)
    /\ SecondRunDuplicates(FiltersPerSessionJustRan, fps_table)
    /\ SecondRunDuplicates(FilterChangeJustRan, fc_table)
    /\ (runs = 2 /\ VESomeRan) =>
          VERowsOf(VELastPath) = appended (+) appended

-----------------------------------------------------------------------------
(* Errors of spark.run                                                      *)

\* --- SpecFaulty: one run of either cron script in which each spark.run
\* returns, raises the UnboundLocalError of wmfdata or raises another
\* exception.  Up to MaxFaultyEvents events of session "B" are logged next to
\* the complete funnel of session "A" before the script starts.
MaxFaultyEvents == 2

NextFaulty ==
    \/ \E e \in RerunES :
          /\ job = "process_VE_media_funnel"
          /\ DailyEmitted < MaxFaultyEvents /\ EmitES(e)
    \/ \E e \in RerunVEFU :
          /\ job = "process_VE_media_funnel"
          /\ DailyEmitted < MaxFaultyEvents /\ EmitVEFU(e)
    \/ \E e \in RerunMS :
          /\ job = "aggregate_commons_searches"
          /\ DailyEmitted < MaxFaultyEvents /\ EmitMS(e)
    \/ VEDefineDates
    \/ VERunPath
    \/ \E err \in SparkErrors : VERunPathRaises(err)
    \/ SuccessDefineDates
    \/ SuccessRun
    \/ \E err \in SparkErrors : SuccessRunRaises(err)
    \/ FilterDefineDates
    \/ FiltersPerSessionRun
    \/ \E err \in SparkErrors : FiltersPerSessionRunRaises(err)
    \/ FilterChangeRun
    \/ \E err \in SparkErrors : FilterChangeRunRaises(err)

SpecFaulty == InitDaily /\ [][NextFaulty]_vars

\* The positions of a script at which the next step is a spark.run.
RunCells ==
    {"ve_loop", "success_query", "filters_per_session_query",
     "filter_change_aggregate_query"}

\* The positions of a notebook whose execution an exception has ended.
AbortedCells ==
    {"ve_aborted", "success_aborted", "filters_per_session_aborted",
     "filter_change_aborted"}

\* The position after a query cell that has completed.
CellAfter(cell, i) ==
    CASE cell = "ve_loop" -> IF i = 3 THEN "done" ELSE "ve_loop"
      [] cell = "success_query" -> "filter_usage"
      [] cell = "filters_per_session_query" -> "filter_change_aggregate_query"
      [] cell = "filter_change_aggregate_query" -> "done"

\* C15: when a spark.run raises an error, the notebook goes on with what
\* follows the query (the next iteration, the next cell) if and only if the
\* error is an UnboundLocalError; any other error ends the notebook's
\* execution at that query.
C15_OnlyUnboundLocalErrorIgnored ==
    [][(pc \in RunCells /\ raised' # "none") =>
          IF raised' = "UnboundLocalError"
            THEN /\ pc' = CellAfter(pc, path_i)
                 /\ pc = "ve_loop" => path_i' = path_i + 1
            ELSE /\ pc' \in AbortedCells
                 /\ path_i' = path_i]_vars

\* The first iteration of the VE loop raised the UnboundLocalError and the
\* loop went on; the second raised another exception and the run stopped.
C15_Witness ==
    /\ pc = "ve_aborted"
    /\ raised = "Exception"
    /\ path_i = 2
    /\ ve_table # EmptyBag

\* The output tables.
output_tables == <<ve_table, success_table, fps_table, fc_table>>

-----------------------------------------------------------------------------
(* The clock                                                                *)

\* --- SpecClock: one run of either cron script, started at one of several
\* hours of 2021-01-01 or 2021-03-01.  Session "A" has started on the day
\* before the run; up to MaxClockEvents of its events are logged one hour
\* before 01:00 of the run day and at 01:00 sharp.
MaxClockEvents == 5

Clocks ==
    {Combine(Ordinal(y[1], y[2], y[3]), h) :
       y \in {<<2021, 1, 1>>, <<2021, 3, 1>>}, h \in {1, 23}}

\* The instant o hours after 00:00 of the day before the clock's day.
ClockAt(clock, o) == Combine(DataDayAt(clock), 0) + o

ClockBaseES(clock) ==
    {ESEvent("A", "init", ClockAt(clock, 0), TO_DATE(ClockAt(clock, 0)), 0, FALSE,
             "visualeditor")}

ClockBaseMS(clock) ==
    {MSEvent("A", "search_new", ClockAt(clock, 0), TO_DATE(ClockAt(clock, 0)), "", "", 0),
     MSEvent("A", "result_click", ClockAt(clock, 23), TO_DATE(ClockAt(clock, 23)),
             "", "", 1)}

ClockES ==
    {ESEvent("A", "saveSuccess", ClockAt(now, o), TO_DATE(ClockAt(now, o)), 0, FALSE,
             "visualeditor") : o \in {24, 25}}

ClockVEFU ==
    {VEFUEvent("A", "media", a, ClockAt(now, o), TO_DATE(ClockAt(now, o))) :
       a \in {"window-open-from-tool", "search-change-query",
              "search-confirm-image", "dialog-insert"},
       o \in {24, 25}}

ClockMS ==
    {MSEvent("A", a, ClockAt(now, o), TO_DATE(ClockAt(now, o)), "", "", 2) :
       a \in {"result_click", "quickview_more_details_click",
              "quickview_filename_copy", "quickview_wikitext_link_copy",
              "quickview_media_play"},
       o \in {24, 25}}
    \cup {MSEvent("A", "filter_change", ClockAt(now, o), TO_DATE(ClockAt(now, o)),
                  "mimeType", "jpeg", 0) : o \in {24, 25}}

ClockEmitted == LogSize - 1 - Cardinality(ClockBaseMS(now))

InitClock ==
    /\ \E j \in {"process_VE_media_funnel", "aggregate_commons_searches"} :
         \E clock \in Clocks :
            InitScript(j, clock, ClockBaseES(clock), {}, ClockBaseMS(clock))
    /\ p_start = 0 /\ p_end = 0

NextClock ==
    \/ \E e \in ClockES :
          /\ job = "process_VE_media_funnel"
          /\ ClockEmitted < MaxClockEvents /\ EmitES(e)
    \/ \E e \in ClockVEFU :
          /\ job = "process_VE_media_funnel"
          /\ ClockEmitted < MaxClockEvents /\ EmitVEFU(e)
    \/ \E e \in ClockMS :
          /\ job = "aggregate_commons_searches"
          /\ ClockEmitted < MaxClockEvents /\ EmitMS(e)
    \/ VEDefineDates
    \/ VERunPath
    \/ SuccessDefineDates
    \/ SuccessRun
    \/ FilterDefineDates
    \/ FiltersPerSessionRun
    \/ FilterChangeRun

SpecClock == InitClock /\ [][NextClock]_vars

\* data_day and the cutoff as the claim states them, from the clock alone.
NowDataDay == UtcDate(now) - 1

NowCutoff == Combine(NowDataDay, 0) + HoursPerDay + 1

\* Session s has an event of one of the actions in the media feature at or
\* after lo and before the cutoff.
VEHasBeforeCutoff(s, actions, lo) ==
    \E v \in vefu :
        /\ v.editingsessionid = s /\ v.feature = "media" /\ v.action \in actions
        /\ v.dt >= lo /\ v.dt < NowCutoff

\* Session s has an event of the action after lo and before the cutoff.
MSHasBeforeCutoff(s, action, lo) ==
    \E e \in ms :
        /\ e.web_pageview_id = s /\ e.action = action
        /\ e.dt > lo /\ e.dt < NowCutoff

\* C17: in every notebook data_day is the UTC date of now minus one day and
\* the limit is data_day + 1 day + 1 hour; every step counts a session on an
\* event before that limit only, so that an event at the limit is not
\* counted and an event one hour earlier is.
C17_DataDayAndExclusiveCutoff ==
    /\ (job = "process_VE_media_funnel" /\ VEStarted) =>
          /\ yesterday(today) = NowDataDay
          /\ limit_timestamp(today) = NowCutoff
          /\ \A q \in VEQueries :
                /\ \A i \in 2 .. 5 : \A prev \in StepRows(q, i - 1) :
                      prev.editing_session_id \in Ids(StepRows(q, i))
                        <=> VEHasBeforeCutoff(prev.editing_session_id,
                                              StepActions(q.path_type, i), prev.dt)
                /\ \A prev \in step_5(q) :
                      prev.editing_session_id \in Ids(step_6(q))
                        <=> \E e \in es :
                              /\ e.editing_session_id = prev.editing_session_id
                              /\ e.action = "saveSuccess"
                              /\ e.dt >= prev.dt /\ e.dt < NowCutoff
    /\ MSStarted =>
          /\ data_day(next_day) = NowDataDay
          /\ ms_limit_timestamp(next_day) = NowCutoff
          /\ \A m \in mediasearch_sessions(MSRunQuery) :
                /\ m.session_id \in {r.session_id : r \in mediasearch_filters(MSRunQuery)}
                     <=> \E e \in ms : /\ e.web_pageview_id = m.session_id
                                       /\ e.action = "filter_change"
                                       /\ e.dt < NowCutoff
                /\ \A e \in ms :
                     (e.web_pageview_id = m.session_id /\ e.action = "filter_change")
                       => (e \in filter_changes(MSRunQuery, m) <=> e.dt < NowCutoff)
                /\ \A e \in ms :
                     (/\ e.web_pageview_id = m.session_id
                      /\ e.action = "result_click"
                      /\ e.dt > m.session_start_dt)
                       => (e \in result_clicks(MSRunQuery, m) <=> e.dt < NowCutoff)
          /\ \A mq \in mediasearch_quickview(MSRunQuery) :
                \A c \in QuickviewColumns :
                    (\E ma \in mediasearch_result_actions(MSRunQuery) :
                        ma.session_id = mq.session_id /\ ma[c[2]] # NULL)
                      <=> MSHasBeforeCutoff(mq.session_id, c[1], mq.first_click_dt)

\* A run of 2021-01-01 (data_day 2020-12-31) has counted a filter change
\* logged at 00:00 of the run day and has not counted the one logged at 01:00.
C17_Witness ==
    /\ SuccessJustRan
    /\ DateOf(UtcDate(now)) = [year |-> 2021, month |-> 1, day |-> 1]
    /\ \E e \in ms : e.action = "filter_change" /\ e.dt = NowCutoff
    /\ \E e \in ms : e.action = "quickview_media_play" /\ e.dt = NowCutoff - 1
    /\ \A e \in ms : e.action = "filter_change" => e.dt = NowCutoff
    /\ \A row \in AppendedRows : row.num_used_filter = 0 /\ row.num_media_played = 1
    /\ appended # EmptyBag

-----------------------------------------------------------------------------
(* Partitions                                                               *)

\* --- SpecSkew: one run of either cron script over up to MaxSkewEvents
\* events of session "A" whose partition is the day of their timestamp, the
\* day before or the day after; no partition is later than the run day.
MaxSkewEvents == 3

\* The partitions within one day of an instant's day that exist at the run.
SkewParts(t) == {p \in (TO_DATE(t) - 1) .. (TO_DATE(t) + 1) : p <= UtcDate(RunClock)}

SkewES ==
    {ESEvent("A", "init", At(0), p, 0, FALSE, "visualeditor") : p \in SkewParts(At(0))}

SkewVEFU ==
    UNION {{VEFUEvent("A", "media", "window-open-from-tool", At(o), p) :
              p \in SkewParts(At(o))} : o \in {1, 24}}

SkewMS ==
    {MSEvent("A", "search_new", At(0), p, "", "", 0) : p \in SkewParts(At(0))}
    \cup {MSEvent("A", "filter_change", At(1), p, "mimeType", "jpeg", 0) :
            p \in SkewParts(At(1))}
    \cup {MSEvent("A", "result_click", At(24), p, "", "", 1) : p \in SkewParts(At(24))}

InitSkew ==
    /\ \E j \in {"process_VE_media_funnel", "aggregate_commons_searches"} :
          InitScript(j, RunClock, {}, {}, {})
    /\ p_start = 0 /\ p_end = 0

NextSkew ==
    \/ \E e \in SkewES :
          job = "process_VE_media_funnel" /\ LogSize < MaxSkewEvents /\ EmitES(e)
    \/ \E e \in SkewVEFU :
          job = "process_VE_media_funnel" /\ LogSize < MaxSkewEvents /\ EmitVEFU(e)
    \/ \E e \in SkewMS :
          job = "aggregate_commons_searches" /\ LogSize < MaxSkewEvents /\ EmitMS(e)
    \/ VEDefineDates
    \/ VERunPath
    \/ SuccessDefineDates
    \/ SuccessRun
    \/ FilterDefineDates
    \/ FiltersPerSessionRun
    \/ FilterChangeRun

SpecSkew == InitSkew /\ [][NextSkew]_vars

\* The rows of the two VE event tables and of the MediaSearch table that the
\* queries of the run read.
VERead ==
    {e \in es \cup vefu :
        Selects(make_partition_statement(DateOf(yesterday(today)), DateOf(today)),
                DateOf(e.part))}

MSRead == ms_scanned(MSRunQuery)

\* The event lies between 00:00 of data_day and the cutoff.
InRunWindow(e) == e.dt >= Combine(NowDataDay, 0) /\ e.dt < NowCutoff

VERunning == job = "process_VE_media_funnel" /\ VEStarted

\* C18 (amended): the MediaSearch analyses scan the partitions of
\* previous_day, data_day and next_day, and read every event of the window
\* whose partition day is its timestamp's day or differs from it by one day
\* in either direction; the VE funnel scans the partitions of data_day and
\* next_day only, and reads such an event unless its partition is previous_day.
C18_PartitionsScanned ==
    /\ MSStarted =>
          /\ \A e \in ms : e \in MSRead <=> e.part \in (NowDataDay - 1) .. (NowDataDay + 1)
          /\ \A e \in ms :
                (InRunWindow(e) /\ e.part \in SkewParts(e.dt)) => e \in MSRead
    /\ VERunning =>
          /\ \A e \in es \cup vefu :
                e \in VERead <=> e.part \in NowDataDay .. (NowDataDay + 1)
          /\ \A e \in es \cup vefu :
                (InRunWindow(e) /\ e.part \in SkewParts(e.dt)) =>
                    (e \in VERead <=> e.part # NowDataDay - 1)

\* A search of data_day stored in the partition of previous_day has been read
\* and its session counted.
C18_Witness ==
    /\ SuccessJustRan
    /\ ms # {}
    /\ \A e \in ms : e.action = "search_new" /\ e.part = NowDataDay - 1
    /\ \E row \in AppendedRows : row.num_mediasearch_sessions = 1

\* C18 (as stated): every analysis reads every event of the window whose
\* partition day differs by at most one day from its timestamp's day.
C18_EveryAnalysisReadsBothSides ==
    /\ MSStarted =>
          \A e \in ms : (InRunWindow(e) /\ e.part \in SkewParts(e.dt)) => e \in MSRead
    /\ VERunning =>
          \A e \in es \cup vefu :
              (InRunWindow(e) /\ e.part \in SkewParts(e.dt)) => e \in VERead

-----------------------------------------------------------------------------
(* Quickview actions                                                        *)

\* --- SpecQuickview: one run of aggregate_commons_searches.sh.  Session "A"
\* has searched and clicked a result; up to MaxQuickviewEvents further events
\* are logged before the script starts: quickview actions of "A" at the
\* instant of its click, after it and after the cutoff, and a second session
\* that searches, clicks and plays.
MaxQuickviewEvents == 4

QuickviewBase ==
    {MSEvent("A", "search_new", At(0), TO_DATE(At(0)), "", "", 0),
     MSEvent("A", "result_click", At(1), TO_DATE(At(1)), "", "", 1)}

QuickviewLog ==
    {MSEvent("A", a, At(o), TO_DATE(At(o)), "", "", 0) :
       a \in {"quickview_more_details_click", "quickview_filename_copy",
              "quickview_wikitext_link_copy", "quickview_media_play"},
       o \in {1, 2, 25}}
    \cup {MSEvent("A", "result_click", At(3), TO_DATE(At(3)), "", "", 3),
          MSEvent("B", "search_new", At(0), TO_DATE(At(0)), "", "", 0),
          MSEvent("B", "result_click", At(1), TO_DATE(At(1)), "", "", 2),
          MSEvent("B", "quickview_media_play", At(2), TO_DATE(At(2)), "", "", 0)}

InitQuickview ==
    /\ InitScript("aggregate_commons_searches", RunClock, {}, {}, QuickviewBase)
    /\ p_start = 0 /\ p_end = 0

NextQuickview ==
    \/ \E e \in QuickviewLog :
          /\ Cardinality(ms) - Cardinality(QuickviewBase) < MaxQuickviewEvents
          /\ EmitMS(e)
    \/ SuccessDefineDates
    \/ SuccessRun
    \/ FilterDefineDates
    \/ FiltersPerSessionRun
    \/ FilterChangeRun

SpecQuickview == InitQuickview /\ [][NextQuickview]_vars

\* The quickview actions and the count column of each.
QuickviewCounts ==
    {<<"quickview_more_details_click", "num_filepage_clicked">>,
     <<"quickview_filename_copy", "num_filename_copied">>,
     <<"quickview_wikitext_link_copy", "num_wikitext_copied">>,
     <<"quickview_media_play", "num_media_played">>}

\* The instants of the qualifying result clicks of a session of the date.
ClickTimes(d, s) == {e.dt : e \in {c \in QualifyingClicks(d) : c.web_pageview_id = s}}

\* The sessions of interest of the date with a first result click and an
\* event of the action after it and before the cutoff.
ActedAfterFirstClick(d, action) ==
    {s \in MSGroup(d) :
        /\ ClickTimes(d, s) # {}
        /\ \E e \in ms :
              /\ e.web_pageview_id = s
              /\ e.action = action
              /\ e.dt > MinOf(ClickTimes(d, s))
              /\ e.dt < CutoffTime(next_day)}

\* C19: each of the four quickview counts is the number of sessions of
\* interest that have a first result click and an event of that action after
\* it and before the cutoff, whatever the other three actions did; none of
\* the four counts exceeds num_result_clicked.
C19_QuickviewIndependent ==
    SuccessJustRan =>
        \A row \in AppendedRows : \A c \in QuickviewCounts :
            /\ row[c[2]] = Cardinality(ActedAfterFirstClick(row.log_date, c[1]))
            /\ row[c[2]] <= row.num_result_clicked

\* Two of the four actions happened after the first click of a session and
\* the other two did not.
C19_Witness ==
    /\ SuccessJustRan
    /\ \E row \in AppendedRows :
          /\ row.num_result_clicked = 1
          /\ row.num_filepage_clicked = 1
          /\ row.num_filename_copied = 0
          /\ row.num_wikitext_copied = 1
          /\ row.num_media_played = 0
    /\ \E e \in ms : e.action = "quickview_media_play"

-----------------------------------------------------------------------------
(* Agreement of the MediaSearch notebooks                                   *)

\* The sessions of a sessions CTE with their start instants.
SessionStarts(sessions) == {<<m.session_id, m.session_start_dt>> : m \in sessions}

\* SUM(num_sessions) over a set of rows of the filters-per-session table.
RECURSIVE SumNumSessions(_)
SumNumSessions(rows) ==
    IF rows = {} THEN 0
    ELSE LET row == CHOOSE r \in rows : TRUE
         IN  row.num_sessions + SumNumSessions(rows \ {row})

\* Both the success and the filters-per-session query of the run have written.
BothTablesWritten ==
    /\ job = "aggregate_commons_searches"
    /\ pc \in {"filter_change_aggregate_query", "done"}

\* C20: over one log and one data_day the sessions CTEs of the success, the
\* filters-per-session and the filter-change query hold the same sessions,
\* and num_used_filter of the success row equals the sum of num_sessions over
\* the filters-per-session rows.
C20_NotebooksAgree ==
    /\ MSStarted =>
          /\ SessionStarts(fps_mediasearch_sessions(MSRunQuery))
               = SessionStarts(mediasearch_sessions(MSRunQuery))
          /\ SessionStarts(fca_mediasearch_sessions(MSRunQuery))
               = SessionStarts(mediasearch_sessions(MSRunQuery))
    /\ BothTablesWritten =>
          /\ \A row \in DOMAIN success_table :
                /\ success_table[row] = 1
                /\ row.num_used_filter = SumNumSessions(DOMAIN fps_table)
          /\ success_table = EmptyBag => fps_table = EmptyBag
          /\ \A row \in DOMAIN fps_table : fps_table[row] = 1

\* Two sessions have used filters, one once and one twice: num_used_filter is
\* 2 and the filters-per-session table has two rows of one session each.
C20_Witness ==
    /\ BothTablesWritten
    /\ \E row \in DOMAIN success_table : row.num_used_filter = 2
    /\ Cardinality(DOMAIN fps_table) = 2

-----------------------------------------------------------------------------
(* The path types of the VE funnel table                                    *)

\* C21: every row of the VE funnel table has path_type 'add media' or
\* 'edit media', and a completed run has written rows for exactly these two
\* paths.
C21_TwoPathTypes ==
    /\ \A row \in DOMAIN ve_table : row.path_type \in {"add media", "edit media"}
    /\ (job = "process_VE_media_funnel" /\ pc = "done" /\ ve_table # EmptyBag) =>
          {row.path_type : row \in DOMAIN ve_table} = {"add media", "edit media"}

-----------------------------------------------------------------------------
(* Filters per session                                                      *)

\* The filter_change events of a session before the cutoff.
FilterChangesOf(s) ==
    {e \in ms :
        /\ e.web_pageview_id = s
        /\ e.action = "filter_change"
        /\ e.dt < CutoffTime(next_day)}

\* The filters a session has changed.
DistinctFilters(s) == {e.search_filter_type : e \in FilterChangesOf(s)}

\* C22: the filter_changes value of a filters-per-session row is a number of
\* distinct filters: the row counts the sessions of interest that changed
\* that many different filters, a filter changed several times counting once.
C22_DistinctFiltersCounted ==
    FiltersPerSessionJustRan =>
        \A row \in AppendedRows :
            row.num_sessions =
                Cardinality({s \in MSGroup(row.log_date) :
                               Cardinality(DistinctFilters(s)) = row.filter_changes})


\* C23: no filters-per-session row has filter_changes = 0, and the sum of
\* num_sessions over the rows of a run is the number of sessions of interest
\* with at least one filter_change event before the cutoff.
C23_NoSessionWithoutFilters ==
    FiltersPerSessionJustRan =>
        /\ \A row \in AppendedRows : row.filter_changes > 0 /\ appended[row] = 1
        /\ SumNumSessions(AppendedRows)
             = Cardinality({s \in MSGroup(data_day(next_day)) : FilterChangesOf(s) # {}})

\* Of two sessions of interest one has changed filters and one has not.
C23_Witness ==
    /\ FiltersPerSessionJustRan
    /\ Cardinality(MSGroup(data_day(next_day))) = 2
    /\ \E s \in MSGroup(data_day(next_day)) : FilterChangesOf(s) = {}
    /\ SumNumSessions(AppendedRows) = 1

-----------------------------------------------------------------------------
(* make_partition_statement on windows of up to a month                     *)

\* C24: for start <= end not more than a month (31 days) apart, every day of
\* [start, end] satisfies the statement make_partition_statement produced,
\* also when the window touches three calendar months (January 31 to March 1).
C24_EveryDayWithinAMonth ==
    (p_stmt # NoStatement /\ p_start <= p_end /\ p_end - p_start <= 31)
        => \A d \in p_start .. p_end : Selects(p_stmt, DateOf(d))

-----------------------------------------------------------------------------
(* The counts of a VE funnel row                                            *)

\* C25: in every row of the VE funnel table the step counts do not increase
\* along the funnel and none is negative.
C25_CountsNonIncreasing ==
    \A row \in DOMAIN ve_table :
        /\ row.num_edit_sessions >= row.num_dialog_opens
        /\ row.num_dialog_opens >= row.num_media_searches
        /\ row.num_media_searches >= row.num_media_confirms
        /\ row.num_media_confirms >= row.num_dialog_close
        /\ row.num_dialog_close >= row.num_edit_saves
        /\ row.num_edit_saves >= 0

\* Two sessions opened the dialog, one of them went on to save.
C25_Witness ==
    \E row \in DOMAIN ve_table :
        /\ row.num_edit_sessions = 2
        /\ row.num_dialog_opens = 2
        /\ row.num_media_searches = 1
        /\ row.num_edit_saves = 1


\* The sum of a column (a function of the row) over the rows of a bag.
RECURSIVE SumOver(_, _)
SumOver(column, rows) ==
    IF rows = EmptyBag THEN 0
    ELSE LET row == CHOOSE r \in DOMAIN rows : TRUE
         IN  column[row] * rows[row]
               + SumOver(column, [r \in DOMAIN rows \ {row} |-> rows[r]])

\* The sessions with an event that step_1's WHERE clause keeps.
VEInitSessions ==
    {e.editing_session_id : e \in step_1_rows([es |-> es, today |-> today])}

\* C26: joining never duplicates a session: the rows one iteration of the VE
\* loop appends have distinct (log_date, namespace) and their
\* num_edit_sessions add up to the number of sessions with a qualifying init
\* event on data_day, however many events or page_ns values a session has;
\* the num_mediasearch_sessions of the rows the success query appends add up
\* to the number of MediaSearch sessions of interest.
C26_NoSessionDuplicated ==
    /\ (job = "process_VE_media_funnel" /\ VESomeRan) =>
          /\ \A r1, r2 \in DOMAIN appended :
                (r1.log_date = r2.log_date /\ r1.namespace = r2.namespace) => r1 = r2
          /\ SumOver([r \in DOMAIN appended |-> r.num_edit_sessions], appended)
               = Cardinality(VEInitSessions)
    /\ (job = "aggregate_commons_searches" /\ SuccessJustRan) =>
          SumOver([r \in DOMAIN appended |-> r.num_mediasearch_sessions], appended)
            = Cardinality(SessionsOfInterest({e.web_pageview_id : e \in ms},
                                             MSStartEvents, next_day - 1))

\* A session with init events in two namespaces and two dialog openings has
\* been aggregated.
C26_Witness ==
    /\ job = "process_VE_media_funnel" /\ VESomeRan
    /\ \E s \in VEInitSessions :
          /\ Cardinality({e.page_ns : e \in {x \in step_1_rows([es |-> es, today |-> today]) :
                                               x.editing_session_id = s}}) = 2
          /\ Cardinality({v.dt : v \in {x \in vefu :
                 /\ x.editingsessionid = s
                 /\ x.feature = "media"
                 /\ x.action = open_action(VELastPath)
                 /\ x.dt < limit_timestamp(today)}}) >= 2


\* The timestamps of the events of session s that match step i (2 .. 6) of
\* the funnel of q, lie in the scanned partitions and are before the cutoff.
MatchTimes(q, s, i) ==
    IF i = 6
      THEN {e.dt : e \in {x \in q.es :
                /\ x.editing_session_id = s
                /\ Selects(es_partition_statement(q), DateOf(x.part))
                /\ x.action = "saveSuccess"
                /\ x.dt < CutoffTime(q.today)}}
      ELSE {v.dt : v \in {x \in q.vefu :
                /\ x.editingsessionid = s
                /\ Selects(vefu_partition_statement(q), DateOf(x.part))
                /\ x.feature = "media"
                /\ x.action \in StepActions(q.path_type, i)
                /\ x.dt < CutoffTime(q.today)}}

\* Some events e_2 .. e_k of session s, e_i matching step i, have
\* start <= ts(e_2) <= ... <= ts(e_k).
ChainExists(q, s, start, k) ==
    \E f \in [2 .. k -> UNION {MatchTimes(q, s, i) : i \in 2 .. k}] :
        /\ \A i \in 2 .. k : f[i] \in MatchTimes(q, s, i)
        /\ start <= f[2]
        /\ \A i \in 3 .. k : f[i - 1] <= f[i]

\* C27: choosing the earliest qualifying event at each step never loses a
\* completion: a session of step_1 has a row in step k (2 .. 6) iff some of
\* its events e_2 .. e_k, e_i matching step i, have
\* start_time <= ts(e_2) <= ... <= ts(e_k), all before the cutoff.
C27_EarliestNeverLoses ==
    (job = "process_VE_media_funnel" /\ VEStarted) =>
        \A q \in VEQueries : \A r \in step_1(q) : \A k \in 2 .. 6 :
            (r.editing_session_id \in Ids(StepRows(q, k)))
              <=> ChainExists(q, r.editing_session_id, r.dt, k)

\* The "add media" iteration counted a session through the confirmation
\* although the log holds two openings of the dialog before the cutoff and a
\* search between them: the earliest opening starts a complete chain, the
\* later one does not reach that search.
C27_Witness ==
    /\ VEJustRan(1)
    /\ \E r \in AppendedRows : r.num_media_confirms = 1
    /\ \A v \in vefu : v.dt < CutoffTime(today)
    /\ \E v1, v2, v3 \in vefu :
          /\ v1.action = "window-open-from-tool" /\ v3.action = "window-open-from-tool"
          /\ v2.action = "search-change-query"
          /\ v1.dt <= v2.dt /\ v2.dt < v3.dt


\* C28: within the rows appended by one run of the filter-change aggregation
\* no two rows share (log_date, filter_type, filter_value), also when the log
\* holds both empty and literal 'reset' values for one filter type.
C28_UniqueFilterRows ==
    FilterChangeJustRan =>
        /\ \A row \in DOMAIN appended : appended[row] = 1
        /\ \A r1, r2 \in DOMAIN appended :
              (/\ r1.log_date = r2.log_date
               /\ r1.filter_type = r2.filter_type
               /\ r1.filter_value = r2.filter_value) => r1 = r2


\* C29: after one run of the filter usage notebook the num_changes of the
\* rows of the filter-change table add up to the same number as
\* filter_changes * num_sessions over the rows of the filters-per-session
\* table: both count the filter_change events of the sessions of interest
\* before the cutoff.
C29_TablesAgree ==
    (FilterChangeJustRan /\ runs = 1) =>
        SumOver([r \in DOMAIN fc_table |-> r.num_changes], fc_table)
          = SumOver([r \in DOMAIN fps_table |-> r.filter_changes * r.num_sessions],
                    fps_table)

\* Two sessions with different numbers of filter changes, three events in
\* all, spread over at least two rows of each table.
C29_Witness ==
    /\ FilterChangeJustRan /\ runs = 1
    /\ Cardinality(DOMAIN fps_table) = 2
    /\ Cardinality(DOMAIN fc_table) >= 2
    /\ SumOver([r \in DOMAIN fc_table |-> r.num_changes], fc_table) = 3


-----------------------------------------------------------------------------
(* A run that is under way at UTC midnight                                  *)

\* The wall clock advances by an hour, before, between or during the
\* executions of the notebooks; every notebook reads it in its own
\* "Configuring Timestamps" cell.
MaxTicks == 2

\* The script is started on 2021-03-01 at 23:00 UTC.
LateClock == Combine(Ordinal(2021, 3, 1), 23)

Tick ==
    /\ now < LateClock + MaxTicks
    /\ now' = now + 1
    /\ UNCHANGED <<job, pc, es, vefu, ms, notebook_vars, table_vars, partition_vars>>

\* --- SpecLate: one run of either script started an hour before midnight.
\* The log holds sessions of 2021-02-27 (C), 2021-02-28 (A) and 2021-03-01
\* (B), each with at most one filter change, and the init events of two edit
\* sessions.
MaxLateEvents == 4

LateMS ==
    {MSEvent(x[1], "search_new", ClockAt(LateClock, x[2]),
             TO_DATE(ClockAt(LateClock, x[2])), "", "", 0) :
       x \in {<<"A", 0>>, <<"B", 24>>, <<"C", -1>>}}
    \cup {MSEvent(x[1], "filter_change", ClockAt(LateClock, x[2]),
                  TO_DATE(ClockAt(LateClock, x[2])), "mimeType", "jpeg", 0) :
            x \in {<<"A", 0>>, <<"B", 24>>, <<"C", 0>>}}

LateES ==
    {ESEvent(x[1], "init", ClockAt(LateClock, x[2]), TO_DATE(ClockAt(LateClock, x[2])),
             0, FALSE, "visualeditor") :
       x \in {<<"A", 0>>, <<"B", 24>>}}

InitLate ==
    /\ \E j \in {"process_VE_media_funnel", "aggregate_commons_searches"} :
          InitScript(j, LateClock, {}, {}, {})
    /\ p_start = 0 /\ p_end = 0

NextLate ==
    \/ \E e \in LateES :
          job = "process_VE_media_funnel" /\ LogSize < MaxLateEvents /\ EmitES(e)
    \/ \E e \in LateMS :
          job = "aggregate_commons_searches" /\ LogSize < MaxLateEvents /\ EmitMS(e)
    \/ Tick
    \/ VEDefineDates
    \/ VERunPath
    \/ SuccessDefineDates
    \/ SuccessRun
    \/ FilterDefineDates
    \/ FiltersPerSessionRun
    \/ FilterChangeRun

SpecLate == InitLate /\ [][NextLate]_vars

\* The rows the notebooks of aggregate_commons_searches.sh have written.
CommonsRows == DOMAIN success_table \cup DOMAIN fps_table \cup DOMAIN fc_table

\* The rows the filter usage notebook has written.
FilterUsageRows == DOMAIN fps_table \cup DOMAIN fc_table

\* C30 as stated: all rows written by one invocation of a daily script carry
\* the same log_date, the notebooks of aggregate_commons_searches.sh
\* aggregating one data_day even when the clock passes UTC midnight between
\* or during their executions.
C30_OneLogDatePerInvocation ==
    /\ \A r1, r2 \in DOMAIN ve_table : r1.log_date = r2.log_date
    /\ \A r1, r2 \in CommonsRows : r1.log_date = r2.log_date

\* C30, amended: all rows one notebook execution writes carry the data_day
\* that notebook computed in its first cell, also when the clock passes UTC
\* midnight during the execution; the notebooks of
\* aggregate_commons_searches.sh write one log_date when no UTC midnight
\* falls between the cell of the success notebook and the end of the run.
C30_OneLogDatePerNotebook ==
    /\ (job = "process_VE_media_funnel" /\ VEStarted) =>
          \A r \in DOMAIN ve_table : r.log_date = today - 1
    /\ (job = "aggregate_commons_searches" /\ pc # "idle") =>
          /\ \A r1, r2 \in DOMAIN success_table : r1.log_date = r2.log_date
          /\ \A r1, r2 \in FilterUsageRows : r1.log_date = r2.log_date
          /\ pc \in {"filter_change_aggregate_query", "done"} =>
                \A r \in FilterUsageRows : r.log_date = data_day(next_day)
          /\ (\A r \in DOMAIN success_table : r.log_date + 1 = UtcDate(now)) =>
                \A r1, r2 \in CommonsRows : r1.log_date = r2.log_date

\* The clock passed midnight while the filter usage notebook was running and
\* its two tables hold rows of the day computed before midnight, the day of
\* the rows of the success notebook.
C30_Witness ==
    /\ job = "aggregate_commons_searches" /\ pc = "done"
    /\ UtcDate(now) > next_day
    /\ success_table # EmptyBag /\ fps_table # EmptyBag /\ fc_table # EmptyBag
    /\ \A r \in CommonsRows : r.log_date = data_day(next_day)

=============================================================================
